---------------------------- MODULE Spec2Model ----------------------------
(***************************************************************************)
(* Now-playing widget: source strategy controller (widget.js), broadcast   *)
(* bus and theme ownership (settings.js, main surface and settings         *)
(* surface) and the widget/settings window lifecycle (settings.js, main    *)
(* surface).                                                               *)
(*                                                                         *)
(* Every `await` of the JavaScript is a scheduling point: the code up to   *)
(* an await is one action, the resumption after it another.  Values that   *)
(* JavaScript treats as null/undefined are the string Null.                *)
(***************************************************************************)
EXTENDS Integers, Sequences, FiniteSets, TLC

Null == "<null>"

\* ------------------------------------------------------------------ bounds
MaxTimers == 1
MaxSubs == 2
MaxInFlight == 1
MaxReopen == 1
MaxInbox == 2
MaxClicks == 3
MaxSClicks == 2
MaxFaults == 1
MaxExternalClose == 1
MaxObs == 5
MaxWrites == 2
MaxToggles == 2
MaxShortObs == 3
MaxAuthLost == 1

VARIABLES
  \* ---- localStorage, shared by all surfaces of the origin
  ls,
  \* ---- widget surface (widget.js)
  wpc,             \* position of the widget's DOMContentLoaded handler
  sourceMode,      \* widget.js:16
  gsmPollId,       \* widget.js:17, 0 is null
  timers,          \* live interval timers of the widget page
  spotifyUnsub,    \* widget.js:52, 0 is null
  subs,            \* live now_playing_update subscriptions of the widget
  pendingListens,  \* listen() calls of startSpotifyListener not yet resolved
  pollsInFlight,   \* get_current_playing_gsmtc calls of poll() not yet settled
  lastKey,         \* widget.js:9
  display,         \* what render() last put on screen
  lastFx,          \* the side effect of the last render() call
  renderNote,      \* bookkeeping of the render specifications: the record
                   \* rendered last, the key shown when the last pause was
                   \* rendered, and for a renderGSMTC call its snapshot, the
                   \* filter and the answer of matchesSelectedApp
  gsmtcAppFilter,  \* widget.js:15
  fallback,        \* the 500 ms fallback timeout: "off", "armed", "fired"
  sawModeUpdate,   \* a source_mode_update reached this widget page
  pollNote,        \* outcome of the last settled poll and whether a tick followed
  reopens,         \* how often the widget page was loaded again
  wTheme,          \* colours applied by applyTheme, NoTheme before the first
  \* ---- broadcast bus
  inbox,           \* per surface, events dispatched to it and not yet handled
  \* ---- main surface (settings.js:140-564)
  mpc,             \* position of the main DOMContentLoaded handler
  lastThemeUpdate, \* payload of the last theme_update the main surface emitted
  modeRequests,    \* request_source_mode / request_gsmtc_app_filter published to a
                   \* booted main surface and not answered
  \* ---- settings surface (settings.js:1-58)
  spc,             \* position of the settings DOMContentLoaded handler
  sInputs,         \* the values of the three colour inputs
  \* ---- window registry (Tauri) and lifecycle manager (settings.js:415-563)
  registry,        \* labels of the windows that exist
  creating,        \* per label, the create requests in flight
  widgetWin,       \* settings.js:422, the cached handle or Null
  handles,         \* lifecycle callbacks of the handles openWidget created:
                   \* created callbacks due, destroyed listeners registered,
                   \* destroyed callbacks due
  clicks,          \* the running open-widget click handlers
  sclicks,         \* the running open-settings click handlers
  btnText,         \* openWidgetBtn.textContent
  hist,            \* bookkeeping of the runs (not program state)
  \* ---- export scheduler of the main surface (settings.js:160-285)
  exportEnabled,   \* settings.js:160
  exportDir,       \* settings.js:164, Null until ensureExportDir resolves one
  lastExportKey,   \* settings.js:165
  writes,          \* write_now_playing_assets calls in flight, by track key
  fetches,         \* toggle handlers waiting for get_current_playing
  mStatus,         \* statusEl.textContent
  mView,           \* what renderNowPlaying last put on the main page
  attempts,        \* the writer invocations so far (bookkeeping)
  obs,             \* the records maybeExport was handed so far (bookkeeping)
  exNote,          \* toggles so far and the last failed write (bookkeeping)
  authRestores,    \* auth_lost handlers waiting for restore_spotify
  \* ---- reconciliation timer of the main surface (settings.js:514)
  syncInterval     \* _syncInterval is a live interval timer

widgetVars == <<wpc, sourceMode, gsmPollId, timers, spotifyUnsub, subs,
                pendingListens, pollsInFlight, lastKey, display, lastFx,
                gsmtcAppFilter, fallback, sawModeUpdate, pollNote, reopens,
                wTheme>>
busVars == <<inbox, mpc, lastThemeUpdate, modeRequests, spc, sInputs>>
lifeVars == <<registry, creating, widgetWin, handles, clicks, sclicks,
              btnText, hist>>
exportVars == <<exportEnabled, exportDir, lastExportKey, writes, fetches,
                mStatus, mView, attempts, obs, exNote, authRestores>>
vars == <<ls, widgetVars, busVars, lifeVars, exportVars, renderNote,
          syncInterval>>


\* ------------------------------------------------- now-playing records
\* artists is a list of names or, from the poll source, one raw string
\* (isStr): items holds the names, or the one string.
Artists(isStr, items) == [isStr |-> isStr, items |-> items]

NP(playing, name, artists, album, url, path) ==
  [is_playing |-> playing, track_name |-> name, artists |-> artists,
   album |-> album, artwork_url |-> url, artwork_path |-> path]

\* { is_playing: false }, widget.js:128
NotPlaying == NP(FALSE, "", Artists(FALSE, <<>>), "", "", "")
TrackA == NP(TRUE, "Song A", Artists(FALSE, <<"Artist Y">>), "Album Z", "http://art/a", "")
TrackB == NP(TRUE, "Song B", Artists(FALSE, <<"Artist Y", "Artist Q">>), "Album Z", "", "b.png")

\* payloads of now_playing_update and results of get_current_playing
PushRecords == {NotPlaying, TrackA, TrackB}

\* result of get_current_playing_gsmtc
GSnap(app, status, pos, title, artist, album, path) ==
  [source_app_id |-> app, status |-> status, position_ms |-> pos,
   title |-> title, artist |-> artist, album |-> album, artwork_path |-> path]

SnapSpotifyPlaying == GSnap("Spotify.exe", "Playing", Null, " Song X ", "Artist Y", "Album Z", "")
SnapSpotifyStopped == GSnap("Spotify.exe", "Stopped", Null, "Song X", "Artist Y", "Album Z", "")
SnapChromePlaying == GSnap("chrome", "Playing", "1200", "Video", "Channel", "", "")

Snapshots == {SnapSpotifyPlaying, SnapSpotifyStopped, SnapChromePlaying}

\* ------------------------------------------------- strings
RECURSIVE Join(_, _)
\* Array.prototype.join
Join(items, sep) ==
  IF items = <<>> THEN ""
  ELSE IF Len(items) = 1 THEN items[1]
  ELSE items[1] \o sep \o Join(Tail(items), sep)

\* JavaScript's v || d on strings and null
Or(v, d) == IF v = Null \/ v = "" THEN d ELSE v

\* JavaScript's v ?? d
Coalesce(v, d) == IF v = Null THEN d ELSE v

\* the i-th character of s
Char(s, i) == SubSeq(s, i, i)

\* s from its i-th character on
From(s, i) == SubSeq(s, i, Len(s))

RECURSIVE Trim(_)
\* String.prototype.trim (blanks)
Trim(s) ==
  IF s = "" THEN ""
  ELSE IF Char(s, 1) = " " THEN Trim(From(s, 2))
  ELSE IF Char(s, Len(s)) = " " THEN Trim(SubSeq(s, 1, Len(s) - 1))
  ELSE s

UpperCase == "ABCDEFGHIJKLMNOPQRSTUVWXYZ"
LowerCase == "abcdefghijklmnopqrstuvwxyz"

\* each upper-case letter with its lower-case letter
LowerTable ==
  [c \in {Char(UpperCase, i) : i \in 1..Len(UpperCase)} |->
     Char(LowerCase, CHOOSE i \in 1..Len(UpperCase) : Char(UpperCase, i) = c)]

LowerChar(c) == IF c \in DOMAIN LowerTable THEN LowerTable[c] ELSE c

RECURSIVE Lower(_)
\* String.prototype.toLowerCase (ASCII letters)
Lower(s) == IF s = "" THEN "" ELSE LowerChar(Char(s, 1)) \o Lower(From(s, 2))

\* String.prototype.includes
Includes(id, token) ==
  \E i \in 1..(Len(id) - Len(token) + 1) :
    SubSeq(id, i, i + Len(token) - 1) = token

\* ------------------------------------------------- widget.js: matching
\* a matcher that takes every identifier naming music for Apple Music
matchesSelectedAppLoose(d, filter) ==
  LET id == Lower(Or(d.source_app_id, ""))
      isSpotify == Includes(id, "spotify")
      isApple == \/ Includes(id, "applemusicwin11")
                 \/ Includes(id, "appleinc.applemusic")
                 \/ Includes(id, "applemusic")
                 \/ Includes(id, "appleinc.itunes")
                 \/ Includes(id, "itunes")
                 \/ Includes(id, "music")
      isYouTubeMusic == \/ Includes(id, "youtubemusic")
                        \/ Includes(id, "youtube_music")
                        \/ (Includes(id, "google") /\ Includes(id, "music")
                            /\ Includes(id, "youtube"))
      isYouTubeMusicPWAish ==
        \/ isYouTubeMusic
        \/ ((Includes(id, "pwa") \/ Includes(id, "pwalauncher"))
            /\ Includes(id, "youtube"))
  IN CASE filter = "spotify" -> isSpotify
       [] filter = "apple" -> isApple
       [] filter = "ytm" -> isYouTubeMusicPWAish
       [] OTHER -> FALSE

\* a matcher that lets every session through an unknown filter
matchesSelectedAppOpen(d, filter) ==
  LET id == Lower(Or(d.source_app_id, ""))
      isSpotify == Includes(id, "spotify")
      isApple == \/ Includes(id, "applemusicwin11")
                 \/ Includes(id, "appleinc.applemusic")
                 \/ Includes(id, "applemusic")
                 \/ Includes(id, "appleinc.itunes")
                 \/ Includes(id, "itunes")
      isYouTubeMusic == \/ Includes(id, "youtubemusic")
                        \/ Includes(id, "youtube_music")
                        \/ (Includes(id, "google") /\ Includes(id, "music")
                            /\ Includes(id, "youtube"))
      isYouTubeMusicPWAish ==
        \/ isYouTubeMusic
        \/ ((Includes(id, "pwa") \/ Includes(id, "pwalauncher"))
            /\ Includes(id, "youtube"))
  IN CASE filter = "spotify" -> isSpotify
       [] filter = "apple" -> isApple
       [] filter = "ytm" -> isYouTubeMusicPWAish
       [] OTHER -> TRUE

\* widget.js:79-119
matchesSelectedApp(d, filter) ==
  LET id == Lower(Or(d.source_app_id, ""))
      isSpotify == Includes(id, "spotify")
      isApple == \/ Includes(id, "applemusicwin11")
                 \/ Includes(id, "appleinc.applemusic")
                 \/ Includes(id, "applemusic")
                 \/ Includes(id, "appleinc.itunes")
                 \/ Includes(id, "itunes")
      isYouTubeMusic == \/ Includes(id, "youtubemusic")
                        \/ Includes(id, "youtube_music")
                        \/ (Includes(id, "google") /\ Includes(id, "music")
                            /\ Includes(id, "youtube"))
      isYouTubeMusicPWAish ==
        \/ isYouTubeMusic
        \/ ((Includes(id, "pwa") \/ Includes(id, "pwalauncher"))
            /\ Includes(id, "youtube"))
  IN CASE filter = "spotify" -> isSpotify
       [] filter = "apple" -> isApple
       [] filter = "ytm" -> isYouTubeMusicPWAish
       [] OTHER -> FALSE

\* a renderGSMTC that hands the artist on as a list of one name
normalizeGSMTCArtistList(d, filter) ==
  IF ~matchesSelectedApp(d, filter) THEN NotPlaying
  ELSE LET status == Lower(Or(d.status, ""))
           active == status \in {"playing", "paused"} \/ d.position_ms # Null
       IN IF ~active THEN NotPlaying
          ELSE NP(TRUE, Trim(Or(d.title, "")),
                  Artists(FALSE, <<Trim(Or(d.artist, ""))>>),
                  Trim(Or(d.album, "")), "", Or(d.artwork_path, ""))

\* a renderGSMTC for which only a playing session is active
normalizeGSMTCPlayingOnly(d, filter) ==
  IF ~matchesSelectedApp(d, filter) THEN NotPlaying
  ELSE LET status == Lower(Or(d.status, ""))
           active == status = "playing"
       IN IF ~active THEN NotPlaying
          ELSE NP(TRUE, Trim(Or(d.title, "")),
                  Artists(TRUE, <<Trim(Or(d.artist, ""))>>),
                  Trim(Or(d.album, "")), "", Or(d.artwork_path, ""))

\* the record renderGSMTC hands to render
normalizeGSMTC(d, filter) ==
  IF ~matchesSelectedApp(d, filter) THEN NotPlaying
  ELSE LET status == Lower(Or(d.status, ""))
           active == status \in {"playing", "paused"} \/ d.position_ms # Null
       IN IF ~active THEN NotPlaying
          ELSE NP(TRUE, Trim(Or(d.title, "")),
                  Artists(TRUE, <<Trim(Or(d.artist, ""))>>),
                  Trim(Or(d.album, "")), "", Or(d.artwork_path, ""))

\* ------------------------------------------------- widget.js: render
resolveArtUrl(d) ==
  IF d.artwork_url # "" THEN d.artwork_url
  ELSE IF d.artwork_path # "" THEN "asset://" \o d.artwork_path
  ELSE ""

NothingShown ==
  [show |-> FALSE, title |-> "Nothing is currently playing", meta |-> "", art |-> ""]

\* the page before the first render
BlankDisplay == [show |-> FALSE, title |-> "", meta |-> "", art |-> ""]

\* widget.js:309-312 and 326-328: the branches of render() that call
\* swapTextLikeOld and showArtworkWithFade, named by their side effect
Animates(fx) == fx \in {"reset", "swap"}

\* a render whose nothing-playing branch keeps lastKey
renderPauseKeepsKey(d, key) ==
  IF ~d.is_playing \/ d.track_name = ""
  THEN [lastKey |-> key, display |-> NothingShown, lastFx |-> "reset"]
  ELSE LET title == d.track_name
           meta == IF d.artists.isStr THEN d.artists.items[1]
                   ELSE Join(d.artists.items, ", ")
           art == resolveArtUrl(d)
           k == title \o "|" \o meta \o "|" \o art
           shown == [show |-> TRUE, title |-> title, meta |-> meta, art |-> art]
       IN IF k # key
          THEN [lastKey |-> k, display |-> shown, lastFx |-> "swap"]
          ELSE [lastKey |-> key, display |-> shown, lastFx |-> "refresh"]

\* render(d) with lastKey = key: the new lastKey, the screen and the side
\* effect taken ("reset": nothing-playing branch, "swap": the track-change
\* branch, "refresh": the same-key branch)
render(d, key) ==
  IF ~d.is_playing \/ d.track_name = ""
  THEN [lastKey |-> "", display |-> NothingShown, lastFx |-> "reset"]
  ELSE LET title == d.track_name
           meta == IF d.artists.isStr THEN d.artists.items[1]
                   ELSE Join(d.artists.items, ", ")
           art == resolveArtUrl(d)
           k == title \o "|" \o meta \o "|" \o art
           shown == [show |-> TRUE, title |-> title, meta |-> meta, art |-> art]
       IN IF k # key
          THEN [lastKey |-> k, display |-> shown, lastFx |-> "swap"]
          ELSE [lastKey |-> key, display |-> shown, lastFx |-> "refresh"]

\* normalizeGSMTC over the snapshots and filters of the model, computed once
Normalized ==
  [g \in Snapshots, f \in {"spotify", "apple", "ytm"} |-> normalizeGSMTC(g, f)]

\* widget.js:125-152
renderGSMTC(d, filter, key) ==
  render(IF <<d, filter>> \in DOMAIN Normalized THEN Normalized[d, filter]
         ELSE normalizeGSMTC(d, filter), key)


\* ------------------------------------------------- widget.js: strategy
\* The strategy state the functions below read and write, as one record.
W == [sourceMode |-> sourceMode, gsmPollId |-> gsmPollId, timers |-> timers,
      spotifyUnsub |-> spotifyUnsub, subs |-> subs,
      pendingListens |-> pendingListens, pollsInFlight |-> pollsInFlight,
      ls |-> ls]

\* setInterval's next id: the smallest not live, 0 when the bound is used up
FreshTimer(S) ==
  IF \E i \in 1..MaxTimers : i \notin S.timers
  THEN CHOOSE i \in 1..MaxTimers :
         i \notin S.timers /\ \A j \in 1..(i - 1) : j \in S.timers
  ELSE 0

\* the next subscription: the smallest id neither live nor pending
FreshSub(S) ==
  IF \E i \in 1..MaxSubs : i \notin (S.subs \cup S.pendingListens)
  THEN CHOOSE i \in 1..MaxSubs :
         /\ i \notin (S.subs \cup S.pendingListens)
         /\ \A j \in 1..(i - 1) : j \in (S.subs \cup S.pendingListens)
  ELSE 0

\* the model's bounds leave room for what S holds
Bounded(S) ==
  /\ 0 \notin S.timers
  /\ 0 \notin S.pendingListens
  /\ S.pollsInFlight <= MaxInFlight

stopGSMTCPoll(S) ==
  IF S.gsmPollId # 0
  THEN [S EXCEPT !.timers = @ \ {S.gsmPollId}, !.gsmPollId = 0]
  ELSE S

\* poll() up to its await: the provider call is in flight
poll(S) == [S EXCEPT !.pollsInFlight = @ + 1]

startGSMTCPoll(S) ==
  LET S1 == stopGSMTCPoll(S)
      S2 == poll(S1)
      id == FreshTimer(S2)
  IN [S2 EXCEPT !.timers = @ \cup {id}, !.gsmPollId = id]

stopSpotifyListener(S) ==
  IF S.spotifyUnsub # 0
  THEN [S EXCEPT !.subs = @ \ {S.spotifyUnsub}, !.spotifyUnsub = 0]
  ELSE S

\* startSpotifyListener up to its await: the listen() call is pending
startSpotifyListener(S) ==
  LET S1 == stopSpotifyListener(S)
  IN [S1 EXCEPT !.pendingListens = @ \cup {FreshSub(S1)}]

restartStrategy(S) ==
  IF S.sourceMode = "gsmtc"
  THEN startGSMTCPoll(stopSpotifyListener(S))
  ELSE startSpotifyListener(stopGSMTCPoll(S))

\* a setSourceMode that takes the tag as it comes
setSourceModeAnyTag(S, next) ==
  restartStrategy([S EXCEPT !.sourceMode = next, !.ls.sourceMode = next])

setSourceMode(S, next) ==
  LET m == IF next = "gsmtc" THEN "gsmtc" ELSE "spotify"
  IN restartStrategy([S EXCEPT !.sourceMode = m, !.ls.sourceMode = m])

\* a catch that gave up polling
pollFailedStopsTimer(S) == stopGSMTCPoll(S)

\* the catch of poll(): console.warn
pollFailed(S) == S

\* the strategy variables take the values of S
SetW(S) ==
  /\ Bounded(S)
  /\ sourceMode' = S.sourceMode
  /\ gsmPollId' = S.gsmPollId
  /\ timers' = S.timers
  /\ spotifyUnsub' = S.spotifyUnsub
  /\ subs' = S.subs
  /\ pendingListens' = S.pendingListens
  /\ pollsInFlight' = S.pollsInFlight
  /\ ls' = S.ls

SetRender(r) ==
  /\ lastKey' = r.lastKey
  /\ display' = r.display
  /\ lastFx' = r.lastFx

strategyVars == <<sourceMode, gsmPollId, timers, spotifyUnsub, subs,
                  pendingListens, pollsInFlight, ls>>
renderVars == <<lastKey, display, lastFx>>

\* values a source_mode_update payload carries in mode ("" also stands for
\* an absent mode); "poll" is a tag the widget does not know
ModeTags == {"spotify", "gsmtc", "poll", ""}

\* the source_mode_update listener is registered (widget.js:356)
ModeListenerOn == wpc \in {"listenFilter", "seedSpotify", "seedGsmtc", "done"}

\* widget.js:356-359, a source_mode_update is delivered
SourceModeUpdate(mode) ==
  /\ ModeListenerOn
  /\ sawModeUpdate' = TRUE
  /\ IF mode # "" THEN SetW(setSourceMode(W, mode))
                  ELSE UNCHANGED strategyVars
  /\ UNCHANGED <<wpc, renderVars, gsmtcAppFilter, fallback, pollNote,
                 reopens, wTheme, busVars, lifeVars>>
  /\ UNCHANGED <<exportVars, renderNote, syncInterval>>

\* widget.js:49, the interval fires: poll() runs to its await
PollTick ==
  /\ gsmPollId \in timers
  /\ SetW(poll(W))
  /\ pollNote' = IF pollNote = "failed" THEN "failedThenTicked" ELSE pollNote
  /\ UNCHANGED <<wpc, renderVars, gsmtcAppFilter, fallback, sawModeUpdate,
                 reopens, wTheme, busVars, lifeVars>>
  /\ UNCHANGED <<exportVars, renderNote, syncInterval>>

\* widget.js:44-46, the provider call of a poll() rejects
PollFail ==
  /\ pollsInFlight > 0
  /\ SetW(pollFailed([W EXCEPT !.pollsInFlight = @ - 1]))
  /\ pollNote' = "failed"
  /\ UNCHANGED <<wpc, renderVars, gsmtcAppFilter, fallback, sawModeUpdate,
                 reopens, wTheme, busVars, lifeVars>>
  /\ UNCHANGED <<exportVars, renderNote, syncInterval>>

\* widget.js:36-43, the provider call of a poll() resolves with d
PollResult(d) ==
  /\ pollsInFlight > 0
  /\ pollsInFlight' = pollsInFlight - 1
  /\ SetRender(renderGSMTC(d, gsmtcAppFilter, lastKey))
  /\ pollNote' = "ok"
  /\ UNCHANGED <<wpc, sourceMode, gsmPollId, timers, spotifyUnsub, subs,
                 pendingListens, ls, gsmtcAppFilter, fallback, sawModeUpdate,
                 reopens, wTheme, busVars, lifeVars>>
  /\ UNCHANGED <<exportVars, renderNote, syncInterval>>

\* widget.js:55-60, a listen() of startSpotifyListener resolves: the
\* subscription is live and spotifyUnsub holds its unlisten function
ListenResolve(id) ==
  /\ id \in pendingListens
  /\ pendingListens' = pendingListens \ {id}
  /\ subs' = subs \cup {id}
  /\ spotifyUnsub' = id
  /\ UNCHANGED <<wpc, sourceMode, gsmPollId, timers, pollsInFlight, ls,
                 renderVars, gsmtcAppFilter, fallback, sawModeUpdate,
                 pollNote, reopens, wTheme, busVars, lifeVars>>
  /\ UNCHANGED <<exportVars, renderNote, syncInterval>>

\* widget.js:57-59, the backend emits now_playing_update: every live
\* subscription of the widget renders the payload
PushEvent(d) ==
  /\ subs # {}
  /\ LET r1 == render(d, lastKey)
     IN SetRender(IF Cardinality(subs) > 1 THEN render(d, r1.lastKey) ELSE r1)
  /\ UNCHANGED <<wpc, strategyVars, gsmtcAppFilter, fallback, sawModeUpdate,
                 pollNote, reopens, wTheme, busVars, lifeVars>>
  /\ UNCHANGED <<exportVars, renderNote, syncInterval>>


\* ------------------------------------------------- theme (settings.js)
Theme(bg, title, meta) == [bg |-> bg, title |-> title, meta |-> meta]

\* no theme: nothing applied yet, or an event without a payload
NoTheme == Theme("", "", "")

DefaultTheme == Theme("#2f2f2f", "#00cf00", "#ffffff")

\* the stored colours as they are, without the defaults
getThemeStored(store) == Theme(store.bg, store.title, store.meta)

\* settings.js:174-180
getTheme(store) ==
  Theme(Or(store.bg, "#2f2f2f"), Or(store.title, "#00cf00"),
        Or(store.meta, "#ffffff"))

\* localStorage.setItem stores the string of its value
Str(v) == IF v = Null THEN "null" ELSE v

\* a setTheme that stores the title colour under the key of the meta colour
setThemeCrossed(store, theme) ==
  [store EXCEPT !.bg = Str(theme.bg), !.title = Str(theme.meta),
                !.meta = Str(theme.title)]

\* settings.js:181-185
setTheme(store, theme) ==
  [store EXCEPT !.bg = Str(theme.bg), !.title = Str(theme.title),
                !.meta = Str(theme.meta)]

\* a listener that takes the payload as it comes
themeOfChangeRaw(payload) == payload

\* settings.js:211-215, the theme a theme_change payload stands for
themeOfChange(payload) ==
  Theme(Or(payload.bg, "#2f2f2f"), Or(payload.title, "#00cf00"),
        Or(payload.meta, "#ffffff"))

\* settings.js:15-21
readInputs(inputs) ==
  Theme(Or(inputs.bg, "#2f2f2f"), Or(inputs.title, "#00cf00"),
        Or(inputs.meta, "#ffffff"))

\* a theme_update listener that resets the inputs whatever it is handed
setInputsIgnoresPayload(theme) ==
  Theme("#2f2f2f", "#00cf00", "#ffffff")

\* settings.js:23-27
setInputs(theme) ==
  Theme(Or(theme.bg, "#2f2f2f"), Or(theme.title, "#00cf00"),
        Or(theme.meta, "#ffffff"))

\* widget.js:166-174, the colours on screen after applyTheme(theme)
applyTheme(theme) ==
  Theme(Coalesce(theme.bg, "#2f2f2f"), Coalesce(theme.title, "#00cf00"),
        Coalesce(theme.meta, "#ffffff"))

\* ------------------------------------------------- broadcast bus
Surfaces == {"main", "widget", "settings"}

MainStages == <<"load", "listenReqTheme", "listenThemeChange", "restore",
                "artDir", "listenNowPlaying", "listenAuthLost", "initBtn",
                "ready">>

\* the main handler has passed the await named by stage
MainPast(stage) ==
  \E i, j \in 1..Len(MainStages) :
    MainStages[i] = stage /\ MainStages[j] = mpc /\ j > i

\* the listeners registered at this moment, per surface and channel
Listens(s, ch) ==
  CASE s = "main" ->
         \/ ch = "request_theme" /\ MainPast("listenReqTheme")
         \/ ch = "theme_change" /\ MainPast("listenThemeChange")
    [] s = "widget" -> ch = "theme_update" /\ wpc \notin {"closed", "load"}
    [] s = "settings" -> ch = "theme_update" /\ spc \notin {"closed", "load"}

Msg(ch, payload) == [ch |-> ch, payload |-> payload]

\* event.emit: dispatched to the listeners registered now, lost for the rest
Emit(ib, ch, payload) ==
  [s \in Surfaces |->
     IF Listens(s, ch) THEN Append(ib[s], Msg(ch, payload)) ELSE ib[s]]

\* the bound on queued events leaves room for n more on channel ch
Room(ch, n) ==
  \A s \in Surfaces : Listens(s, ch) => Len(inbox[s]) + n <= MaxInbox

\* settings.js:190-194
broadcastTheme(ib, theme) == Emit(ib, "theme_update", theme)

\* the last theme_update the main surface emitted, and the code that did it
ThemeUpdate(cause, theme) == [cause |-> cause, theme |-> theme]


\* ------------------------------------------------- widget.js: page and boot
\* a fresh page that leaves the timers and calls of the earlier page running
WidgetPageLeaksTimers(pc) ==
  /\ wpc' = pc
  /\ sourceMode' = "spotify"
  /\ gsmPollId' = gsmPollId
  /\ timers' = timers
  /\ spotifyUnsub' = 0
  /\ subs' = {}
  /\ pendingListens' = {}
  /\ pollsInFlight' = pollsInFlight
  /\ lastKey' = ""
  /\ display' = BlankDisplay
  /\ lastFx' = "none"
  /\ gsmtcAppFilter' = Or(ls.gsmtcApp, "spotify")
  /\ fallback' = "off"
  /\ sawModeUpdate' = FALSE
  /\ pollNote' = "none"
  /\ wTheme' = NoTheme
  /\ inbox' = [inbox EXCEPT !["widget"] = <<>>]

\* widget.js:1-17,52: the script's top level runs in a fresh page; timers,
\* subscriptions and calls of an earlier page are gone with it
WidgetPage(pc) ==
  /\ wpc' = pc
  /\ sourceMode' = "spotify"
  /\ gsmPollId' = 0
  /\ timers' = {}
  /\ spotifyUnsub' = 0
  /\ subs' = {}
  /\ pendingListens' = {}
  /\ pollsInFlight' = 0
  /\ lastKey' = ""
  /\ display' = BlankDisplay
  /\ lastFx' = "none"
  /\ gsmtcAppFilter' = Or(ls.gsmtcApp, "spotify")
  /\ fallback' = "off"
  /\ sawModeUpdate' = FALSE
  /\ pollNote' = "none"
  /\ wTheme' = NoTheme
  /\ inbox' = [inbox EXCEPT !["widget"] = <<>>]

WidgetPageFresh == WidgetPage("load")

\* the widget window is gone, and its page with it
WidgetPageClosed == WidgetPage("closed")

\* the widget window's page is loaded again (the window was closed and
\* opened, or reloaded): localStorage stays
WidgetLoad ==
  /\ reopens < MaxReopen
  /\ reopens' = reopens + 1
  /\ WidgetPageFresh
  /\ registry' = registry \cup {"widget"}
  /\ UNCHANGED <<ls, mpc, lastThemeUpdate, modeRequests, spc, sInputs,
                 creating, widgetWin, handles, clicks, sclicks, btnText, hist>>
  /\ UNCHANGED <<exportVars, renderNote, syncInterval>>

\* a request emitted when the main surface has registered its listeners and
\* none of them is for the request's channel
Unanswered(ch) ==
  IF MainPast("listenThemeChange") /\ ~Listens("main", ch) THEN {ch} ELSE {}

\* widget.js:352-356: theme_update listener registered, request_theme
\* emitted, listen(source_mode_update) called
W_ListenTheme ==
  /\ wpc = "load"
  /\ Room("request_theme", 1)
  /\ wpc' = "listenMode"
  /\ inbox' = Emit(inbox, "request_theme", NoTheme)
  /\ UNCHANGED <<ls, strategyVars, renderVars, gsmtcAppFilter, fallback,
                 sawModeUpdate, pollNote, reopens, wTheme, mpc,
                 lastThemeUpdate, modeRequests, spc, sInputs, lifeVars>>
  /\ UNCHANGED <<exportVars, renderNote, syncInterval>>

\* widget.js:356-364: source_mode_update listener registered,
\* request_source_mode emitted, listen(gsmtc_app_filter_update) called
W_ListenSourceMode ==
  /\ wpc = "listenMode"
  /\ wpc' = "listenFilter"
  /\ inbox' = Emit(inbox, "request_source_mode", NoTheme)
  /\ modeRequests' = modeRequests \cup Unanswered("request_source_mode")
  /\ UNCHANGED <<ls, strategyVars, renderVars, gsmtcAppFilter, fallback,
                 sawModeUpdate, pollNote, reopens, wTheme, mpc,
                 lastThemeUpdate, spc, sInputs, lifeVars>>
  /\ UNCHANGED <<exportVars, renderNote, syncInterval>>

\* widget.js:364-385: gsmtc_app_filter_update listener registered,
\* request_gsmtc_app_filter emitted, the fallback timeout armed,
\* get_current_playing invoked
W_ListenFilter ==
  /\ wpc = "listenFilter"
  /\ wpc' = "seedSpotify"
  /\ inbox' = Emit(inbox, "request_gsmtc_app_filter", NoTheme)
  /\ modeRequests' = modeRequests \cup Unanswered("request_gsmtc_app_filter")
  /\ fallback' = "armed"
  /\ UNCHANGED <<ls, strategyVars, renderVars, gsmtcAppFilter,
                 sawModeUpdate, pollNote, reopens, wTheme, mpc,
                 lastThemeUpdate, spc, sInputs, lifeVars>>
  /\ UNCHANGED <<exportVars, renderNote, syncInterval>>

\* widget.js:376-379, the fallback timeout fires
W_Fallback ==
  /\ fallback = "armed"
  /\ fallback' = "fired"
  /\ IF sourceMode = ""
     THEN SetW(setSourceMode(W, Or(ls.sourceMode, "spotify")))
     ELSE UNCHANGED strategyVars
  /\ UNCHANGED <<wpc, renderVars, gsmtcAppFilter, sawModeUpdate, pollNote,
                 reopens, wTheme, busVars, lifeVars>>
  /\ UNCHANGED <<exportVars, renderNote, syncInterval>>

\* widget.js:383-391: get_current_playing settles (ok: with d), the GSMTC
\* seed is invoked
W_SeedSpotify(ok, d) ==
  /\ wpc = "seedSpotify"
  /\ wpc' = "seedGsmtc"
  /\ IF ok /\ (d.track_name # "" \/ d.is_playing)
     THEN SetRender(render(d, lastKey))
     ELSE UNCHANGED renderVars
  /\ UNCHANGED <<strategyVars, gsmtcAppFilter, fallback, sawModeUpdate,
                 pollNote, reopens, wTheme, busVars, lifeVars>>
  /\ UNCHANGED <<exportVars, renderNote, syncInterval>>

\* widget.js:389-396: get_current_playing_gsmtc settles (ok: with g), then
\* restartStrategy()
W_SeedGsmtc(ok, g) ==
  /\ wpc = "seedGsmtc"
  /\ wpc' = "done"
  /\ IF ok THEN SetRender(renderGSMTC(g, gsmtcAppFilter, lastKey))
           ELSE UNCHANGED renderVars
  /\ SetW(restartStrategy(W))
  /\ UNCHANGED <<gsmtcAppFilter, fallback, sawModeUpdate, pollNote, reopens,
                 wTheme, busVars, lifeVars>>
  /\ UNCHANGED <<exportVars, renderNote, syncInterval>>

\* widget.js:364-370, a gsmtc_app_filter_update is delivered
FilterUpdate(v) ==
  /\ wpc \in {"seedSpotify", "seedGsmtc", "done"}
  /\ IF v # ""
     THEN gsmtcAppFilter' = v /\ ls' = [ls EXCEPT !.gsmtcApp = v]
     ELSE UNCHANGED <<gsmtcAppFilter, ls>>
  /\ UNCHANGED <<wpc, sourceMode, gsmPollId, timers, spotifyUnsub, subs,
                 pendingListens, pollsInFlight, renderVars, fallback,
                 sawModeUpdate, pollNote, reopens, wTheme, busVars, lifeVars>>
  /\ UNCHANGED <<exportVars, renderNote, syncInterval>>

\* widget.js:352, the widget handles a dispatched theme_update
W_ThemeUpdate ==
  /\ inbox["widget"] # <<>>
  /\ Head(inbox["widget"]).ch = "theme_update"
  /\ inbox' = [inbox EXCEPT !["widget"] = Tail(@)]
  /\ wTheme' = applyTheme(Head(inbox["widget"]).payload)
  /\ UNCHANGED <<ls, wpc, strategyVars, renderVars, gsmtcAppFilter, fallback,
                 sawModeUpdate, pollNote, reopens, mpc, lastThemeUpdate,
                 modeRequests, spc, sInputs, lifeVars>>
  /\ UNCHANGED <<exportVars, renderNote, syncInterval>>

\* values a gsmtc_app_filter_update payload carries
FilterTags == {"spotify", "apple"}

\* ------------------------------------------------- initial states
NoRenderNote == [via |-> "none", last |-> Null, pausedKey |-> "",
                 snap |-> Null, filter |-> "", matched |-> FALSE]

EmptyStore == [sourceMode |-> Null, gsmtcApp |-> Null,
               bg |-> Null, title |-> Null, meta |-> Null,
               exportEnabled |-> Null]

NoExNote == [toggles |-> 0, enables |-> 0, failKey |-> "", failAt |-> 0]

\* the main page before its first render
BlankMainView == [text |-> "", art |-> ""]

\* settings.js:160-165: the export state of a main page over store that
\* has run no handler but its load, with the status line at status
ExportPage(store, status) ==
  /\ exportEnabled = (Or(store.exportEnabled, "false") = "true")
  /\ exportDir = Null
  /\ lastExportKey = ""
  /\ writes = <<>> /\ fetches = 0 /\ authRestores = 0
  /\ mStatus = status /\ mView = BlankMainView
  /\ attempts = <<>> /\ obs = <<>> /\ exNote = NoExNote

\* the page before restore_spotify settled
ExportPageFresh(store) == ExportPage(store, "")

NoHist == [faults |-> 0, overlapped |-> FALSE, closes |-> 0, sCloses |-> 0,
           cacheHit |-> "none", bothFailed |-> FALSE, tickSrc |-> "none",
           lastChange |-> Theme("", "", ""), heard |-> FALSE]

\* no page has run yet, whatever localStorage holds
InitPages ==
  /\ sourceMode = "spotify" /\ gsmPollId = 0 /\ timers = {}
  /\ spotifyUnsub = 0 /\ subs = {} /\ pendingListens = {}
  /\ pollsInFlight = 0 /\ lastKey = "" /\ display = BlankDisplay
  /\ lastFx = "none" /\ renderNote = NoRenderNote /\ gsmtcAppFilter = "spotify" /\ fallback = "off"
  /\ sawModeUpdate = FALSE /\ pollNote = "none" /\ reopens = 0
  /\ wTheme = NoTheme
  /\ inbox = [s \in Surfaces |-> <<>>]
  /\ modeRequests = {}
  /\ spc = "closed" /\ sInputs = NoTheme
  /\ creating = [widget |-> 0, settings |-> 0] /\ widgetWin = Null
  /\ handles = [createdCbs |-> 0, destroyedLs |-> 0, destroyedEvs |-> 0]
  /\ clicks = <<>> /\ sclicks = <<>>
  /\ btnText = "Open Widget Window" /\ hist = NoHist

\* no page has run yet; only the main window exists
InitCommon ==
  /\ ls = EmptyStore
  /\ ExportPageFresh(EmptyStore)
  /\ InitPages

\* ------------------------------------------------- the widget on its own
\* The widget page with its providers; the owner of the source mode is the
\* environment (no surface under src/ publishes source_mode_update).
StrategyInit ==
  /\ InitCommon
  /\ wpc = "load"
  /\ mpc = "unloaded"
  /\ syncInterval = (mpc = "ready")
  /\ lastThemeUpdate = ThemeUpdate("none", NoTheme)
  /\ registry = {"main", "widget"}

StrategyNext ==
  \/ WidgetLoad
  \/ W_ListenTheme
  \/ W_ListenSourceMode
  \/ W_ListenFilter
  \/ W_Fallback
  \/ \E d \in PushRecords : W_SeedSpotify(TRUE, d)
  \/ W_SeedSpotify(FALSE, NotPlaying)
  \/ \E g \in Snapshots : W_SeedGsmtc(TRUE, g)
  \/ W_SeedGsmtc(FALSE, SnapSpotifyStopped)
  \/ \E mode \in ModeTags : SourceModeUpdate(mode)
  \/ \E v \in FilterTags : FilterUpdate(v)
  \/ PollTick
  \/ PollFail
  \/ \E g \in Snapshots : PollResult(g)
  \/ \E id \in 1..MaxSubs : ListenResolve(id)
  \/ \E d \in PushRecords : PushEvent(d)

StrategySpec == StrategyInit /\ [][StrategyNext]_vars


\* ------------------------------------------------- settings.js: main boot
\* settings.js:151-205: debug_gsmtc settles; when it resolved, the two seed
\* broadcasts are emitted and listen(request_theme) is called; when it
\* rejected, the handler ends there
M_DebugGsmtc(ok) ==
  /\ mpc = "load"
  /\ IF ok
     THEN /\ Room("theme_update", 2)
          /\ inbox' = broadcastTheme(broadcastTheme(inbox, getTheme(ls)),
                                     getTheme(ls))
          /\ lastThemeUpdate' = ThemeUpdate("seed", getTheme(ls))
          /\ mpc' = "listenReqTheme"
     ELSE /\ mpc' = "aborted"
          /\ UNCHANGED <<inbox, lastThemeUpdate>>
  /\ UNCHANGED <<ls, widgetVars, modeRequests, spc, sInputs, lifeVars>>
  /\ UNCHANGED <<exportVars, renderNote, syncInterval>>

\* the main handler resumes from the await named by `from`
MainStep(from, to) ==
  /\ mpc = from
  /\ mpc' = to
  /\ UNCHANGED <<ls, widgetVars, inbox, lastThemeUpdate, modeRequests, spc,
                 sInputs>>
  /\ UNCHANGED <<exportVars, renderNote, syncInterval>>

\* settings.js:205-210: request_theme listener registered
M_ListenRequestTheme ==
  MainStep("listenReqTheme", "listenThemeChange") /\ UNCHANGED lifeVars

\* settings.js:210-289: theme_change listener registered, restore_spotify
\* invoked
M_ListenThemeChange ==
  MainStep("listenThemeChange", "restore") /\ UNCHANGED lifeVars

\* settings.js:288-304: restore_spotify settles, get_local_art_dir invoked
M_RestoreSpotify == MainStep("restore", "artDir") /\ UNCHANGED lifeVars

\* settings.js:303-349: get_local_art_dir settles, listen(now_playing_update)
M_GetLocalArtDir == MainStep("artDir", "listenNowPlaying") /\ UNCHANGED lifeVars

\* settings.js:349-354
M_ListenNowPlaying ==
  MainStep("listenNowPlaying", "listenAuthLost") /\ UNCHANGED lifeVars

\* settings.js:354-451: auth_lost listener registered, the buttons wired,
\* setWidgetBtnState() called
M_ListenAuthLost == MainStep("listenAuthLost", "initBtn") /\ UNCHANGED lifeVars

\* WebviewWindow.getByLabel(label): a handle when the window exists
getByLabel(label) == IF label \in registry THEN "handle" ELSE Null

ButtonText(w) == IF w # Null THEN "Close Widget Window" ELSE "Open Widget Window"

\* settings.js:451-515: the first setWidgetBtnState() returns (widgetWin was
\* null: the registry was asked); click handler and the sync timer are set
M_InitBtn ==
  /\ mpc = "initBtn"
  /\ mpc' = "ready"
  /\ widgetWin' = getByLabel("widget")
  /\ btnText' = ButtonText(widgetWin')
  /\ syncInterval' = TRUE
  /\ UNCHANGED <<ls, widgetVars, inbox, lastThemeUpdate, modeRequests, spc,
                 sInputs>>
  /\ UNCHANGED <<registry, creating, handles, clicks, sclicks, hist>>
  /\ UNCHANGED <<exportVars, renderNote>>

\* settings.js:205-207, the request_theme listener
M_RequestTheme ==
  /\ inbox["main"] # <<>>
  /\ Head(inbox["main"]).ch = "request_theme"
  /\ Room("theme_update", 1)
  /\ inbox' = broadcastTheme([inbox EXCEPT !["main"] = Tail(@)], getTheme(ls))
  /\ lastThemeUpdate' = ThemeUpdate("request", getTheme(ls))
  /\ UNCHANGED <<ls, widgetVars, mpc, modeRequests, spc, sInputs, lifeVars>>
  /\ UNCHANGED <<exportVars, renderNote, syncInterval>>

\* settings.js:210-218, the theme_change listener
M_ThemeChange ==
  /\ inbox["main"] # <<>>
  /\ Head(inbox["main"]).ch = "theme_change"
  /\ Room("theme_update", 1)
  /\ LET next == themeOfChange(Head(inbox["main"]).payload)
     IN /\ ls' = setTheme(ls, next)
        /\ inbox' = broadcastTheme([inbox EXCEPT !["main"] = Tail(@)], next)
        /\ lastThemeUpdate' = ThemeUpdate("change", next)
  /\ UNCHANGED <<widgetVars, mpc, modeRequests, spc, sInputs, lifeVars>>
  /\ UNCHANGED <<exportVars, renderNote, syncInterval>>

\* ------------------------------------------------- settings.js: settings page
\* the settings window's page is loaded
SettingsPageFresh ==
  /\ spc' = "load"
  /\ sInputs' = NoTheme
  /\ inbox' = [inbox EXCEPT !["settings"] = <<>>]

SettingsLoad ==
  /\ spc = "closed"
  /\ SettingsPageFresh
  /\ registry' = registry \cup {"settings"}
  /\ UNCHANGED <<ls, widgetVars, mpc, lastThemeUpdate, modeRequests,
                 creating, widgetWin, handles, clicks, sclicks, btnText, hist>>
  /\ UNCHANGED <<exportVars, renderNote, syncInterval>>

\* settings.js:38-57: theme_update listener registered, request_theme
\* emitted, the inputs wired
S_ListenTheme ==
  /\ spc = "load"
  /\ Room("request_theme", 1)
  /\ spc' = "ready"
  /\ inbox' = Emit(inbox, "request_theme", NoTheme)
  /\ UNCHANGED <<ls, widgetVars, mpc, lastThemeUpdate, modeRequests, sInputs,
                 lifeVars>>
  /\ UNCHANGED <<exportVars, renderNote, syncInterval>>

\* settings.js:38, the settings page handles a dispatched theme_update
S_ThemeUpdate ==
  /\ inbox["settings"] # <<>>
  /\ Head(inbox["settings"]).ch = "theme_update"
  /\ inbox' = [inbox EXCEPT !["settings"] = Tail(@)]
  /\ sInputs' = setInputs(Head(inbox["settings"]).payload)
  /\ UNCHANGED <<ls, widgetVars, mpc, lastThemeUpdate, modeRequests, spc,
                 lifeVars>>
  /\ UNCHANGED <<exportVars, renderNote, syncInterval>>

\* bookkeeping: the theme_change published last, and whether the main
\* surface listened for it then
NoteChange(h, theme) ==
  [h EXCEPT !.lastChange = theme, !.heard = Listens("main", "theme_change")]

\* settings.js:29-34
emitChange(ib, inputs) == Emit(ib, "theme_change", readInputs(inputs))

\* settings.js:42-44, the user picks a colour in one input
S_Input(field, color) ==
  /\ spc = "ready"
  /\ Room("theme_change", 1)
  /\ sInputs' = [sInputs EXCEPT ![field] = color]
  /\ inbox' = emitChange(inbox, sInputs')
  /\ hist' = NoteChange(hist, readInputs(sInputs'))
  /\ UNCHANGED <<ls, widgetVars, mpc, lastThemeUpdate, modeRequests, spc,
                 registry, creating, widgetWin, handles, clicks, sclicks,
                 btnText>>
  /\ UNCHANGED <<exportVars, renderNote, syncInterval>>

\* settings.js:46-50, the reset button
S_Reset ==
  /\ spc = "ready"
  /\ Room("theme_change", 1)
  /\ sInputs' = setInputs(DefaultTheme)
  /\ inbox' = emitChange(inbox, sInputs')
  /\ hist' = NoteChange(hist, readInputs(sInputs'))
  /\ UNCHANGED <<ls, widgetVars, mpc, lastThemeUpdate, modeRequests, spc,
                 registry, creating, widgetWin, handles, clicks, sclicks,
                 btnText>>
  /\ UNCHANGED <<exportVars, renderNote, syncInterval>>

\* settings.js:52-57, the close button: the settings window is gone
S_Close ==
  /\ spc = "ready"
  /\ spc' = "closed"
  /\ sInputs' = NoTheme
  /\ inbox' = [inbox EXCEPT !["settings"] = <<>>]
  /\ registry' = registry \ {"settings"}
  /\ hist' = [hist EXCEPT !.sCloses = @ + 1]
  /\ UNCHANGED <<ls, widgetVars, mpc, lastThemeUpdate, modeRequests,
                 creating, widgetWin, handles, clicks, sclicks, btnText>>
  /\ UNCHANGED <<exportVars, renderNote, syncInterval>>

\* ------------------------------------------------- the surfaces on the bus
\* Main, widget and settings pages boot in any order (settings.js:450: the
\* widget may already be open when the main page boots).
BusInit ==
  /\ InitCommon
  /\ wpc = "closed"
  /\ mpc = "load"
  /\ syncInterval = (mpc = "ready")
  /\ lastThemeUpdate = ThemeUpdate("none", NoTheme)
  /\ registry = {"main"}

BusNext ==
  \/ M_DebugGsmtc(TRUE)
  \/ M_DebugGsmtc(FALSE)
  \/ M_ListenRequestTheme
  \/ M_ListenThemeChange
  \/ M_RequestTheme
  \/ M_ThemeChange
  \/ WidgetLoad
  \/ W_ListenTheme
  \/ W_ListenSourceMode
  \/ W_ListenFilter
  \/ W_ThemeUpdate
  \/ SettingsLoad
  \/ S_ListenTheme
  \/ S_ThemeUpdate
  \/ S_Input("bg", "#123456")
  \/ S_Reset

BusSpec == BusInit /\ [][BusNext]_vars


\* ------------------------------------------------- settings.js: widget toggle
\* A click handler that has not run yet to its end: pc is the await it is
\* suspended at, res the answer of the registry it waits for, exists its
\* decision, src where the decision came from ("cache": the cached handle,
\* "registry": getByLabel) and live whether the window existed at the decision.
\* closeSt and destroySt are the states of the w.close() and w.destroy() calls
\* of its closeWidget: "none", "pending", "ok" or "failed".
Click(pc, res, exists, src, live) ==
  [pc |-> pc, res |-> res, exists |-> exists, src |-> src, live |-> live,
   closeSt |-> "none", destroySt |-> "none"]

WidgetLive == "widget" \in registry

\* settings.js:426, what findExistingWidget returns without asking the
\* registry: the cached handle, if there is one
cachedWidget(w) == w

\* the window labelled widget is destroyed: tauri://destroyed goes to the
\* once-listeners registered for it, and its page is gone
WidgetDestroyed ==
  /\ registry' = registry \ {"widget"}
  /\ handles' = [handles EXCEPT !.destroyedEvs = @ + handles.destroyedLs,
                                !.destroyedLs = 0]
  /\ WidgetPageClosed

NoteCacheHit(h) ==
  [h EXCEPT !.cacheHit = IF WidgetLive THEN "live" ELSE "dead"]

\* settings.js:480-486, closeWidget of click c up to its first await, with
\* the handle w that findExistingWidget returned: w.close() is called, or,
\* without a handle, closeWidget returns and setWidgetBtnState asks the registry
closeWidget(c, w) ==
  IF w = Null
  THEN [c EXCEPT !.pc = "btnLookup", !.res = getByLabel("widget")]
  ELSE [c EXCEPT !.pc = "closing", !.closeSt = "pending"]

\* settings.js:486-487, w.close() resolved: closeWidget returns
closeResolved(c) == [c EXCEPT !.closeSt = "ok"]

\* settings.js:489-495, w.close() rejected: the catch warns, w.destroy() is
\* called
closeRejected(c) ==
  [c EXCEPT !.closeSt = "failed", !.destroySt = "pending", !.pc = "destroying"]

\* settings.js:495-496, w.destroy() resolved: closeWidget returns
destroyResolved(c) == [c EXCEPT !.destroySt = "ok"]

\* a destroy() whose rejection escaped closeWidget and ended the click handler
destroyRejectedThrows(c) == [c EXCEPT !.destroySt = "failed", !.pc = "threw"]

\* settings.js:498-500, w.destroy() rejected: the catch logs, closeWidget
\* returns
destroyRejected(c) == [c EXCEPT !.destroySt = "failed"]

\* settings.js:503-506, a click: findExistingWidget() answers from the cache
\* and closeWidget() runs to its await of w.close(), or asks the registry
ClickStart ==
  /\ mpc = "ready"
  /\ Len(clicks) < MaxClicks
  /\ LET overlap == \E i \in 1..Len(clicks) : clicks[i].pc # "done"
     IN IF cachedWidget(widgetWin) # Null
        THEN /\ clicks' = Append(clicks,
                            closeWidget(Click("decided", Null, TRUE, "cache",
                                              WidgetLive),
                                        cachedWidget(widgetWin)))
             /\ hist' = [NoteCacheHit(hist) EXCEPT
                           !.overlapped = @ \/ overlap]
        ELSE /\ clicks' = Append(clicks,
                            Click("lookup", getByLabel("widget"), FALSE, "", FALSE))
             /\ hist' = [hist EXCEPT !.overlapped = @ \/ overlap]
  /\ UNCHANGED <<ls, widgetVars, busVars, registry, creating, widgetWin,
                 handles, sclicks, btnText>>
  /\ UNCHANGED <<exportVars, renderNote, syncInterval>>

\* settings.js:428-440,504-510: getByLabel answered; the click closes an
\* existing widget (to the await of w.close()) or opens one: openWidget
\* (settings.js:453-478) caches the new handle, requests the window, registers
\* the lifecycle callbacks and sets the button from the cached handle
ClickLookupDone(i) ==
  /\ i \in 1..Len(clicks)
  /\ clicks[i].pc = "lookup"
  /\ LET res == clicks[i].res
     IN IF res # Null
        THEN /\ widgetWin' = res
             /\ clicks' = [clicks EXCEPT ![i] =
                             closeWidget(Click("decided", Null, TRUE, "registry",
                                               WidgetLive),
                                         cachedWidget(widgetWin'))]
             /\ UNCHANGED <<creating, handles, btnText>>
        ELSE /\ widgetWin' = "handle"
             /\ creating' = [creating EXCEPT !.widget = @ + 1]
             /\ handles' = [handles EXCEPT !.destroyedLs = @ + 1]
             /\ btnText' = ButtonText(widgetWin')
             /\ clicks' = [clicks EXCEPT ![i] =
                             Click("done", Null, FALSE, "registry", WidgetLive)]
  /\ UNCHANGED <<ls, widgetVars, busVars, registry, sclicks, hist>>
  /\ UNCHANGED <<exportVars, renderNote, syncInterval>>

\* settings.js:443-448,507: click i, now c, after its closeWidget returned:
\* setWidgetBtnState() with the cached handle w answers from the cache, or
\* asks the registry; h is the bookkeeping so far. A handler that threw ends.
AfterClose(i, c, w, h) ==
  IF c.pc = "threw"
  THEN /\ btnText' = btnText
       /\ clicks' = [clicks EXCEPT ![i] = c]
       /\ hist' = h
  ELSE IF cachedWidget(w) # Null
  THEN /\ btnText' = ButtonText(w)
       /\ clicks' = [clicks EXCEPT ![i] = [c EXCEPT !.pc = "done"]]
       /\ hist' = [h EXCEPT
                     !.cacheHit = IF "widget" \in registry' THEN "live" ELSE "dead"]
  ELSE /\ btnText' = btnText
       /\ clicks' = [clicks EXCEPT ![i] =
                       [c EXCEPT !.pc = "btnLookup",
                                 !.res = IF "widget" \in registry'
                                         THEN "handle" ELSE Null]]
       /\ hist' = h

\* settings.js:484-491: w.close() settles. It closes the window if there is
\* one (ok) or rejects: always when there is none, and when the close fails
ClickCloseSettled(i, ok) ==
  /\ i \in 1..Len(clicks)
  /\ clicks[i].pc = "closing"
  /\ ok => WidgetLive
  /\ (~ok /\ WidgetLive) => hist.faults < MaxFaults
  /\ IF ok
     THEN /\ WidgetDestroyed
          /\ AfterClose(i, closeResolved(clicks[i]), widgetWin, hist)
          /\ UNCHANGED reopens
     ELSE /\ clicks' = [clicks EXCEPT ![i] = closeRejected(clicks[i])]
          /\ hist' = [hist EXCEPT !.faults = IF WidgetLive THEN @ + 1 ELSE @]
          /\ UNCHANGED <<widgetVars, inbox, registry, handles, btnText>>
  /\ UNCHANGED <<ls, mpc, lastThemeUpdate, modeRequests, spc, sInputs,
                 creating, widgetWin, sclicks>>
  /\ UNCHANGED <<exportVars, renderNote, syncInterval>>

\* settings.js:493-500,507: w.destroy() settles: it destroys the window if
\* there is one, and rejects if there is none
ClickDestroySettled(i) ==
  /\ i \in 1..Len(clicks)
  /\ clicks[i].pc = "destroying"
  /\ IF WidgetLive
     THEN /\ WidgetDestroyed
          /\ UNCHANGED reopens
          /\ AfterClose(i, destroyResolved(clicks[i]), widgetWin, hist)
     ELSE /\ UNCHANGED <<widgetVars, inbox, registry, handles>>
          /\ AfterClose(i, destroyRejected(clicks[i]), widgetWin,
                        [hist EXCEPT !.bothFailed = TRUE, !.tickSrc = "none"])
  /\ UNCHANGED <<ls, mpc, lastThemeUpdate, modeRequests, spc, sInputs,
                 creating, widgetWin, sclicks>>
  /\ UNCHANGED <<exportVars, renderNote, syncInterval>>

\* settings.js:428-447: the registry answered the setWidgetBtnState() of
\* click i
ClickBtnLookupDone(i) ==
  /\ i \in 1..Len(clicks)
  /\ clicks[i].pc = "btnLookup"
  /\ widgetWin' = clicks[i].res
  /\ btnText' = ButtonText(widgetWin')
  /\ clicks' = [clicks EXCEPT ![i].pc = "done"]
  /\ UNCHANGED <<ls, widgetVars, busVars, registry, creating, handles,
                 sclicks, hist>>
  /\ UNCHANGED <<exportVars, renderNote, syncInterval>>

\* the create request of a `new WebviewWindow(label)` settles: the window
\* exists from now on, unless the label is taken (tauri://error)
CreateSettled(label) ==
  /\ creating[label] > 0
  /\ creating' = [creating EXCEPT ![label] = @ - 1]
  /\ IF label \in registry
     THEN UNCHANGED <<widgetVars, inbox, spc, sInputs, registry, handles>>
     ELSE /\ registry' = registry \cup {label}
          /\ IF label = "widget"
             THEN /\ WidgetPageFresh
                  /\ handles' = [handles EXCEPT !.createdCbs = @ + 1]
                  /\ UNCHANGED <<reopens, spc, sInputs>>
             ELSE /\ SettingsPageFresh
                  /\ UNCHANGED <<widgetVars, handles>>
  /\ UNCHANGED <<ls, mpc, lastThemeUpdate, modeRequests, widgetWin, clicks,
                 sclicks, btnText, hist>>
  /\ UNCHANGED <<exportVars, renderNote, syncInterval>>

\* settings.js:424-448, setWidgetBtnState() run to its end: the handle
\* findExistingWidget caches and returns
findExistingWidget(w) ==
  IF cachedWidget(w) # Null THEN w ELSE getByLabel("widget")

\* settings.js:466-470, the tauri://created callback
CreatedCallback ==
  /\ handles.createdCbs > 0
  /\ Room("theme_update", 1)
  /\ handles' = [handles EXCEPT !.createdCbs = @ - 1]
  /\ widgetWin' = findExistingWidget(widgetWin)
  /\ btnText' = ButtonText(widgetWin')
  /\ hist' = IF widgetWin # Null THEN NoteCacheHit(hist) ELSE hist
  /\ inbox' = broadcastTheme(inbox, getTheme(ls))
  /\ lastThemeUpdate' = ThemeUpdate("created", getTheme(ls))
  /\ UNCHANGED <<ls, widgetVars, mpc, modeRequests, spc, sInputs, registry,
                 creating, clicks, sclicks>>
  /\ UNCHANGED <<exportVars, renderNote, syncInterval>>

\* settings.js:471-474, a tauri://destroyed callback
DestroyedCallback ==
  /\ handles.destroyedEvs > 0
  /\ handles' = [handles EXCEPT !.destroyedEvs = @ - 1]
  /\ widgetWin' = findExistingWidget(Null)
  /\ btnText' = ButtonText(widgetWin')
  /\ UNCHANGED <<ls, widgetVars, busVars, registry, creating, clicks,
                 sclicks, hist>>
  /\ UNCHANGED <<exportVars, renderNote, syncInterval>>

\* settings.js:514, a tick of the reconciliation timer
SyncTick ==
  /\ syncInterval
  /\ widgetWin' = findExistingWidget(widgetWin)
  /\ btnText' = ButtonText(widgetWin')
  /\ LET h == IF hist.bothFailed /\ hist.tickSrc = "none"
              THEN [hist EXCEPT !.tickSrc = IF cachedWidget(widgetWin) # Null
                                            THEN "cache" ELSE "registry"]
              ELSE hist
     IN hist' = IF widgetWin # Null THEN NoteCacheHit(h) ELSE h
  /\ UNCHANGED <<ls, widgetVars, busVars, registry, creating, handles,
                 clicks, sclicks>>
  /\ UNCHANGED <<exportVars, renderNote, syncInterval>>

\* an unload listener that leaves the timer alone
beforeUnloadKeepsInterval(live) == live

\* settings.js:515, the beforeunload listener: clearInterval(_syncInterval)
beforeUnload(live) == FALSE

\* the main page unloads: the beforeunload listener runs, and the page is
\* gone with its running handlers, its handles and its pending events
M_BeforeUnload ==
  /\ mpc = "ready"
  /\ mpc' = "unloaded"
  /\ syncInterval' = beforeUnload(syncInterval)
  /\ clicks' = <<>> /\ sclicks' = <<>>
  /\ widgetWin' = Null
  /\ handles' = [createdCbs |-> 0, destroyedLs |-> 0, destroyedEvs |-> 0]
  /\ inbox' = [inbox EXCEPT !["main"] = <<>>]
  /\ modeRequests' = {}
  /\ UNCHANGED <<ls, widgetVars, lastThemeUpdate, spc, sInputs, registry,
                 creating, btnText, hist>>
  /\ UNCHANGED <<exportVars, renderNote>>

\* the user closes the widget window itself
ExternalClose ==
  /\ WidgetLive
  /\ hist.closes < MaxExternalClose
  /\ hist' = [hist EXCEPT !.closes = @ + 1]
  /\ WidgetDestroyed
  /\ UNCHANGED <<ls, reopens, mpc, lastThemeUpdate, modeRequests, spc,
                 sInputs, creating, widgetWin, clicks, sclicks, btnText>>
  /\ UNCHANGED <<exportVars, renderNote, syncInterval>>

\* ------------------------------------------------- settings.js: settings window
\* act: what the handler did, "focus" or "create"; after: every earlier
\* handler had returned when this one started
SClick(pc, res, act, after) == [pc |-> pc, res |-> res, act |-> act, after |-> after]

\* settings.js:520-536, a click on open-settings: findSettings() asks the
\* registry
SClickStart ==
  /\ mpc = "ready"
  /\ Len(sclicks) < MaxSClicks
  /\ sclicks' = Append(sclicks,
                  SClick("lookup", getByLabel("settings"), "",
                         \A i \in 1..Len(sclicks) : sclicks[i].pc = "done"))
  /\ UNCHANGED <<ls, widgetVars, busVars, registry, creating, widgetWin,
                 handles, clicks, btnText, hist>>
  /\ UNCHANGED <<exportVars, renderNote, syncInterval>>

\* settings.js:536-562: the registry answered: focus the window found, or
\* create one
SClickLookupDone(i) ==
  /\ i \in 1..Len(sclicks)
  /\ sclicks[i].pc = "lookup"
  /\ IF sclicks[i].res # Null
     THEN /\ sclicks' = [sclicks EXCEPT ![i].pc = "done", ![i].act = "focus"]
          /\ UNCHANGED creating
     ELSE /\ sclicks' = [sclicks EXCEPT ![i].pc = "done", ![i].act = "create"]
          /\ creating' = [creating EXCEPT !.settings = @ + 1]
  /\ UNCHANGED <<ls, widgetVars, busVars, registry, widgetWin, handles,
                 clicks, btnText, hist>>
  /\ UNCHANGED <<exportVars, renderNote, syncInterval>>

\* ------------------------------------------------- the window lifecycle
\* The main page has booted with no other window open.
LifecycleInit ==
  /\ InitCommon
  /\ wpc = "closed"
  /\ mpc = "ready"
  /\ syncInterval = (mpc = "ready")
  /\ lastThemeUpdate = ThemeUpdate("seed", DefaultTheme)
  /\ registry = {"main"}

LifecycleNext ==
  \/ ClickStart
  \/ \E i \in 1..MaxClicks : ClickLookupDone(i)
  \/ \E i \in 1..MaxClicks : ClickCloseSettled(i, TRUE)
  \/ \E i \in 1..MaxClicks : ClickCloseSettled(i, FALSE)
  \/ \E i \in 1..MaxClicks : ClickDestroySettled(i)
  \/ \E i \in 1..MaxClicks : ClickBtnLookupDone(i)
  \/ CreateSettled("widget")
  \/ CreatedCallback
  \/ DestroyedCallback
  \/ SyncTick
  \/ ExternalClose

LifecycleSpec == LifecycleInit /\ [][LifecycleNext]_vars

\* ------------------------------------------------- the main page unloads
\* The lifecycle manager as above, and the main page may unload at any
\* moment after its boot.
UnloadInit == LifecycleInit

UnloadNext ==
  \/ LifecycleNext
  \/ M_BeforeUnload

UnloadSpec == UnloadInit /\ [][UnloadNext]_vars

\* ------------------------------------------------- the widget is torn down
\* The widget page boots without seeds, is switched between its sources and
\* polls; the widget window may be closed at any moment and opened again.
TeardownInit == StrategyInit

TeardownNext ==
  \/ WidgetLoad
  \/ W_ListenTheme
  \/ W_ListenSourceMode
  \/ W_ListenFilter
  \/ W_Fallback
  \/ W_SeedSpotify(FALSE, NotPlaying)
  \/ W_SeedGsmtc(FALSE, SnapSpotifyStopped)
  \/ \E mode \in ModeTags : SourceModeUpdate(mode)
  \/ PollTick
  \/ PollFail
  \/ \E g \in Snapshots : PollResult(g)
  \/ \E id \in 1..MaxSubs : ListenResolve(id)
  \/ ExternalClose

TeardownSpec == TeardownInit /\ [][TeardownNext]_vars

\* ------------------------------------------------- the settings window
\* The main page has booted; the settings window is opened from it, runs its
\* page and closes itself.
SettingsInit == LifecycleInit

SettingsNext ==
  \/ SClickStart
  \/ \E i \in 1..MaxSClicks : SClickLookupDone(i)
  \/ CreateSettled("settings")
  \/ S_ListenTheme
  \/ S_ThemeUpdate
  \/ S_Input("bg", "#123456")
  \/ S_Reset
  \/ S_Close
  \/ M_RequestTheme
  \/ M_ThemeChange

SettingsSpec == SettingsInit /\ [][SettingsNext]_vars


\* ------------------------------------------------- render on its own
\* The records render() is applied to: every combination of a track name,
\* the artists as a list or as one string, and the artwork as a URL, as a
\* local file or missing; playing or not.
RenderInputs ==
  {NP(p, n, a, al, art[1], art[2]) :
     p \in BOOLEAN, n \in {"", "Song A", "Song B"}, al \in {"Album Z", ""},
     a \in {Artists(FALSE, <<"Artist Y">>), Artists(TRUE, <<"Artist Y">>),
            Artists(FALSE, <<"Artist Y", "Artist Q">>)},
     art \in {<<"http://art/a", "">>, <<"", "b.png">>, <<"", "">>}}

\* widget.js:305-343, one call render(d) of the loaded widget
Render(d) ==
  /\ SetRender(render(d, lastKey))
  /\ renderNote' = [NoRenderNote EXCEPT
                      !.via = "render",
                      !.last = d,
                      !.pausedKey = IF render(d, lastKey).lastFx = "reset"
                                       /\ lastKey # ""
                                    THEN lastKey ELSE renderNote.pausedKey]
  /\ UNCHANGED <<wpc, strategyVars, gsmtcAppFilter, fallback, sawModeUpdate,
                 pollNote, reopens, wTheme, busVars, lifeVars, exportVars,
                 syncInterval>>

RenderInit ==
  /\ InitCommon
  /\ wpc = "done"
  /\ mpc = "unloaded"
  /\ syncInterval = (mpc = "ready")
  /\ lastThemeUpdate = ThemeUpdate("none", NoTheme)
  /\ registry = {"main", "widget"}

RenderNext == \E d \in RenderInputs : Render(d)

RenderSpec == RenderInit /\ [][RenderNext]_vars

\* ------------------------------------------------- the theme store
\* colour values a theme_change payload carries: hex colours in both
\* casings and lengths, and a missing one
PayloadColours == {"#000000", "#ABCDEF", "#fff", "#2F2F2F", ""}

\* settings.js:210-218, the theme_change listener run on payload
ThemeChanged(payload) ==
  /\ MainPast("listenThemeChange")
  /\ LET next == themeOfChange(payload)
     IN /\ ls' = setTheme(ls, next)
        /\ inbox' = broadcastTheme(inbox, next)
        /\ lastThemeUpdate' = ThemeUpdate("change", next)
  /\ UNCHANGED <<widgetVars, mpc, modeRequests, spc, sInputs, lifeVars>>
  /\ UNCHANGED <<exportVars, renderNote, syncInterval>>

\* The main page has booted; widget and settings windows are closed.
ThemeInit ==
  /\ InitPages
  /\ ls = EmptyStore
  /\ ExportPage(ls, "Not connected")
  /\ wpc = "closed"
  /\ mpc = "ready"
  /\ syncInterval = (mpc = "ready")
  /\ lastThemeUpdate = ThemeUpdate("seed", DefaultTheme)
  /\ registry = {"main"}

ThemeNext ==
  \E b, t, m \in PayloadColours : ThemeChanged(Theme(b, t, m))

ThemeSpec == ThemeInit /\ [][ThemeNext]_vars

\* ------------------------------------------------- theme_change handled
\* what a theme_change event may carry: each component a colour, empty or
\* absent
ChangePayloads ==
  {Theme("#ABCDEF", "", Null), Theme(Null, "#ABCDEF", ""),
   Theme("#000000", "#ABCDEF", "#fff")}

\* a theme_change with this payload is published while the main surface
\* listens (settings.js:210)
ThemeChangePublished(payload) ==
  /\ Listens("main", "theme_change")
  /\ Room("theme_change", 1)
  /\ inbox' = Emit(inbox, "theme_change", payload)
  /\ UNCHANGED <<ls, widgetVars, mpc, lastThemeUpdate, modeRequests, spc,
                 sInputs, lifeVars>>
  /\ UNCHANGED <<exportVars, renderNote, syncInterval>>

\* The main page has booted; the widget and settings pages load and listen.
ChangeInit == ThemeInit

ChangeNext ==
  \/ \E payload \in ChangePayloads : ThemeChangePublished(payload)
  \/ M_ThemeChange
  \/ M_RequestTheme
  \/ WidgetLoad
  \/ W_ListenTheme
  \/ W_ThemeUpdate
  \/ SettingsLoad
  \/ S_ListenTheme
  \/ S_ThemeUpdate

ChangeSpec == ChangeInit /\ [][ChangeNext]_vars

\* ------------------------------------------------- renderGSMTC on its own
\* Identifiers the sessions of the three applications carry, by category:
\* the desktop and Store builds the token lists of widget.js:82-108 are
\* written for.
RepresentativeIds ==
  [spotify |-> {"Spotify.exe", "SpotifyAB.SpotifyMusic_zpdnekdrzrea0!Spotify"},
   apple |-> {"AppleInc.AppleMusicWin_nzyj5cx40ttqa!App",
              "AppleInc.iTunes_nzyj5cx40ttqa!iTunes", "iTunes.exe"},
   ytm |-> {"YouTubeMusic.exe", "youtube_music_desktop",
            "com.google.android.apps.youtube.music", "chrome_pwa_youtube"}]

Categories == DOMAIN RepresentativeIds

\* identifiers of other applications, and none
OtherIds == {"chrome", "msedge.exe", Null}

\* a null payload: every d?.field is undefined
NullSnap == GSnap(Null, Null, Null, Null, Null, Null, Null)

\* The snapshots renderGSMTC is applied to: every identifier with every
\* status and with or without a position, a padded and a missing title, and
\* the null payload.
PollInputs ==
  {GSnap(id, st, pos, "Song X", "Artist Y", "Album Z", Null) :
     id \in (UNION {RepresentativeIds[c] : c \in Categories}) \cup OtherIds,
     st \in {"Playing", "PAUSED", "Stopped", Null},
     pos \in {Null, "0"}}
  \cup {GSnap("Spotify.exe", "Playing", "1200", " Song X ", " Artist Y", "", "c.png"),
        GSnap("iTunes.exe", "Paused", Null, "", "", "", Null),
        NullSnap}

\* values the filter can be given: the three categories and others
FilterValues == Categories \cup {"winamp", ""}

\* widget.js:125-152, one call renderGSMTC(g) of the loaded widget
GsmtcRender(g) ==
  /\ SetRender(renderGSMTC(g, gsmtcAppFilter, lastKey))
  /\ renderNote' = [via |-> "renderGSMTC",
                    last |-> normalizeGSMTC(g, gsmtcAppFilter),
                    pausedKey |-> "",
                    snap |-> g,
                    filter |-> gsmtcAppFilter,
                    matched |-> matchesSelectedApp(g, gsmtcAppFilter)]
  /\ UNCHANGED <<wpc, strategyVars, gsmtcAppFilter, fallback, sawModeUpdate,
                 pollNote, reopens, wTheme, busVars, lifeVars, exportVars,
                 syncInterval>>

GsmtcInit == RenderInit

GsmtcNext ==
  \/ \E g \in PollInputs : GsmtcRender(g)
  \/ \E v \in FilterValues : FilterUpdate(v)

GsmtcSpec == GsmtcInit /\ [][GsmtcNext]_vars

\* ------------------------------------------------- settings.js: export
\* The export state maybeExport reads and writes, as one record.
X == [enabled |-> exportEnabled, dir |-> exportDir, key |-> lastExportKey,
      writes |-> writes, attempts |-> attempts]

\* the export variables take the values of S
SetX(S) ==
  /\ exportEnabled' = S.enabled
  /\ exportDir' = S.dir
  /\ lastExportKey' = S.key
  /\ writes' = S.writes
  /\ attempts' = S.attempts

\* settings.js:241-247
trackKey(d) ==
  Join(<<d.track_name, Join(d.artists.items, ","), d.album>>, "||")

\* settings.js:249-260, exportCurrent(d) up to its await: the writer is
\* invoked. tag says which observation handed d over.
exportCurrent(S, d, tag) ==
  [S EXCEPT !.writes = Append(@, trackKey(d)),
            !.attempts = Append(@, [key |-> trackKey(d), at |-> tag.at,
                                    src |-> tag.src, epoch |-> tag.epoch,
                                    enabled |-> S.enabled,
                                    playing |-> d.is_playing,
                                    dir |-> S.dir])]

\* a maybeExport that does not record the key when it dispatches
maybeExportKeyAfterWrite(S, d, tag) ==
  IF ~S.enabled \/ ~d.is_playing THEN S
  ELSE IF trackKey(d) = S.key THEN S
  ELSE exportCurrent(S, d, tag)

\* a maybeExport without its first return
maybeExportUnguarded(S, d, tag) ==
  IF trackKey(d) = S.key THEN S
  ELSE exportCurrent([S EXCEPT !.key = trackKey(d)], d, tag)

\* settings.js:262-270
maybeExport(S, d, tag) ==
  IF ~S.enabled \/ ~d.is_playing THEN S
  ELSE IF trackKey(d) = S.key THEN S
  ELSE exportCurrent([S EXCEPT !.key = trackKey(d)], d, tag)

\* settings.js:316-346, what renderNowPlaying(d) puts on the main page
\* (" - " stands for the dash between the parts)
mainView(d) ==
  IF ~d.is_playing \/ (d.artwork_url = "" /\ d.artwork_path = "")
  THEN [text |-> "Nothing is currently playing.", art |-> ""]
  ELSE [text |-> IF d.track_name = "" THEN ""
                 ELSE d.track_name
                      \o (IF d.artists.items = <<>> THEN ""
                          ELSE " - " \o Join(d.artists.items, ", "))
                      \o (IF d.album = "" THEN "" ELSE " - " \o d.album),
        art |-> IF d.artwork_url # "" THEN d.artwork_url
                ELSE "asset://" \o d.artwork_path]

\* settings.js:316-346, the export part of renderNowPlaying(d)
renderNowPlaying(S, d, tag) ==
  IF ~d.is_playing \/ (d.artwork_url = "" /\ d.artwork_path = "")
  THEN S
  ELSE maybeExport(S, d, tag)

\* an enabling that keeps the last exported key
exportToggleOnKeepsKey(S) == S

\* settings.js:276-278, the toggle was switched on
exportToggleOn(S) == [S EXCEPT !.key = ""]

\* the bookkeeping of an observation: the record, whether export was
\* enabled, the last exported key before it, and who handed it over
Observed(d, src) ==
  [d |-> d, enabled |-> exportEnabled, keyBefore |-> lastExportKey,
   src |-> src, epoch |-> exNote.enables, toggles |-> exNote.toggles]

Tag(src) == [at |-> Len(obs) + 1, src |-> src, epoch |-> exNote.enables]

\* settings.js:349-353, the now_playing_update listener of the main surface
M_NowPlaying(d) ==
  /\ mpc = "ready"
  /\ Len(obs) < MaxObs
  /\ Len(writes) < MaxWrites
  /\ SetX(maybeExport(renderNowPlaying(X, d, Tag("push")), d, Tag("push")))
  /\ mView' = mainView(d)
  /\ obs' = Append(obs, Observed(d, "push"))
  /\ UNCHANGED <<ls, widgetVars, busVars, lifeVars, renderNote, syncInterval, authRestores, fetches, mStatus, exNote>>

\* settings.js:273-280, the change handler of the export toggle up to its
\* await: get_current_playing is invoked when the toggle was switched on
ExportToggle ==
  /\ mpc = "ready"
  /\ exNote.toggles < MaxToggles
  /\ LET checked == ~exportEnabled
         S == [X EXCEPT !.enabled = checked]
     IN /\ ls' = [ls EXCEPT !.exportEnabled = IF checked THEN "true" ELSE "false"]
        /\ SetX(IF checked THEN exportToggleOn(S) ELSE S)
        /\ fetches' = IF checked THEN fetches + 1 ELSE fetches
        /\ exNote' = [exNote EXCEPT !.toggles = @ + 1,
                                    !.enables = IF checked THEN @ + 1 ELSE @]
  /\ UNCHANGED <<widgetVars, busVars, lifeVars, renderNote, syncInterval, authRestores,
                 mStatus, mView, obs>>

\* settings.js:280-283: get_current_playing settles (ok: with d), then
\* maybeExport(d); a rejection is swallowed
ToggleFetched(ok, d) ==
  /\ fetches > 0
  /\ fetches' = fetches - 1
  /\ IF ok
     THEN /\ Len(obs) < MaxObs
          /\ Len(writes) < MaxWrites
          /\ SetX(maybeExport(X, d, Tag("toggle")))
          /\ obs' = Append(obs, Observed(d, "toggle"))
     ELSE UNCHANGED <<exportEnabled, exportDir, lastExportKey, writes,
                      attempts, obs>>
  /\ UNCHANGED <<ls, widgetVars, busVars, lifeVars, renderNote, syncInterval, authRestores, mStatus, mView, exNote>>

\* the sequence without its j-th element
Without(seq, j) == SubSeq(seq, 1, j - 1) \o SubSeq(seq, j + 1, Len(seq))

\* settings.js:251-269: the j-th write in flight settles; a rejection goes
\* to the catch of maybeExport, which sets the status
WriteSettled(j, ok) ==
  /\ j \in 1..Len(writes)
  /\ writes' = Without(writes, j)
  /\ IF ok
     THEN UNCHANGED <<mStatus, exNote>>
     ELSE /\ mStatus' = "Export failed"
          /\ exNote' = [exNote EXCEPT !.failKey = writes[j], !.failAt = Len(obs)]
  /\ UNCHANGED <<ls, widgetVars, busVars, lifeVars, renderNote, syncInterval, authRestores, exportEnabled, exportDir,
                 lastExportKey, fetches, mView, attempts, obs>>

\* ------------------------------------------------- settings.js: auth_lost
\* how restore_spotify can settle: resolved truthy, resolved falsy, rejected
RestoreOutcomes == {"true", "false", "rejected"}

\* status line and now-playing area of the main page
Page == [status |-> mStatus, view |-> mView]

\* an auth_lost handler that leaves the now-playing area alone
authLostSettledKeepsView(P, outcome) ==
  IF outcome = "true" THEN [P EXCEPT !.status = "Connected!!!"]
  ELSE [P EXCEPT !.status = "Not connected"]

\* settings.js:356-365, the auth_lost handler after its await
authLostSettled(P, outcome) ==
  IF outcome = "true" THEN [P EXCEPT !.status = "Connected!!!"]
  ELSE [status |-> "Not connected",
        view |-> [text |-> "Nothing is currently playing.", art |-> ""]]

\* settings.js:354-356, the push provider emits auth_lost: the listener
\* invokes restore_spotify
AuthLost ==
  /\ mpc = "ready"
  /\ authRestores < MaxAuthLost
  /\ authRestores' = authRestores + 1
  /\ UNCHANGED <<ls, widgetVars, busVars, lifeVars, renderNote, syncInterval, exportEnabled,
                 exportDir, lastExportKey, writes, fetches, mStatus, mView,
                 attempts, obs, exNote>>

\* settings.js:356-365, restore_spotify settles for an auth_lost handler
AuthRestoreSettled(outcome) ==
  /\ authRestores > 0
  /\ authRestores' = authRestores - 1
  /\ mStatus' = authLostSettled(Page, outcome).status
  /\ mView' = authLostSettled(Page, outcome).view
  /\ UNCHANGED <<ls, widgetVars, busVars, lifeVars, renderNote, syncInterval, exportEnabled,
                 exportDir, lastExportKey, writes, fetches, attempts, obs,
                 exNote>>

\* ------------------------------------------------- the status line
\* The main page has booted, connected or not; export is enabled or not.
StatusInit ==
  /\ InitPages
  /\ \E e \in {Null, "true"} : ls = [EmptyStore EXCEPT !.exportEnabled = e]
  /\ \E st \in {"Connected!!!", "Not connected"} : ExportPage(ls, st)
  /\ wpc = "closed"
  /\ mpc = "ready"
  /\ syncInterval = (mpc = "ready")
  /\ lastThemeUpdate = ThemeUpdate("seed", DefaultTheme)
  /\ registry = {"main"}

StatusNext ==
  \/ \E d \in PushRecords : Len(obs) < MaxShortObs /\ M_NowPlaying(d)
  \/ AuthLost
  \/ \E o \in RestoreOutcomes : AuthRestoreSettled(o)
  \/ \E j \in 1..MaxWrites : WriteSettled(j, TRUE)
  \/ \E j \in 1..MaxWrites : WriteSettled(j, FALSE)

StatusSpec == StatusInit /\ [][StatusNext]_vars

\* ------------------------------------------------- the export scheduler
\* The main page has booted; export is enabled or not, as persisted.
ExportInit ==
  /\ InitPages
  /\ \E e \in {Null, "true"} : ls = [EmptyStore EXCEPT !.exportEnabled = e]
  /\ ExportPage(ls, "Not connected")
  /\ wpc = "closed"
  /\ mpc = "ready"
  /\ syncInterval = (mpc = "ready")
  /\ lastThemeUpdate = ThemeUpdate("seed", DefaultTheme)
  /\ registry = {"main"}

ExportNext ==
  \/ \E d \in PushRecords : M_NowPlaying(d)
  \/ ExportToggle
  \/ \E d \in PushRecords : ToggleFetched(TRUE, d)
  \/ ToggleFetched(FALSE, NotPlaying)
  \/ \E j \in 1..MaxWrites : WriteSettled(j, TRUE)
  \/ \E j \in 1..MaxWrites : WriteSettled(j, FALSE)

ExportSpec == ExportInit /\ [][ExportNext]_vars

\* The same scheduler over runs of at most MaxShortObs observations.
ShortExportNext ==
  \/ \E d \in PushRecords : Len(obs) < MaxShortObs /\ M_NowPlaying(d)
  \/ ExportToggle
  \/ \E d \in PushRecords : Len(obs) < MaxShortObs /\ ToggleFetched(TRUE, d)
  \/ ToggleFetched(FALSE, NotPlaying)
  \/ \E j \in 1..MaxWrites : WriteSettled(j, TRUE)
  \/ \E j \in 1..MaxWrites : WriteSettled(j, FALSE)

ShortExportSpec == ExportInit /\ [][ShortExportNext]_vars

\* ------------------------------------------------- properties: strategy
\* C1: the push subscription and the poll timer are never both live.
C1_NeverBothLive == ~(timers # {} /\ subs # {})

PollFailStep == pollNote' = "failed" /\ pollsInFlight' = pollsInFlight - 1

\* C2: a poll tick whose provider call fails does not stop the timer (the
\* next tick still fires), renders nothing and changes no widget state.
C2_FailedPollChangesNothing ==
  [][PollFailStep =>
       /\ timers' = timers
       /\ gsmPollId' = gsmPollId
       /\ UNCHANGED <<renderVars, sourceMode, spotifyUnsub, subs,
                      pendingListens, ls, gsmtcAppFilter, wTheme, wpc,
                      fallback>>]_vars

\* a poll failed while the timer was live, and the next tick fired
C2_Witness ==
  /\ pollNote = "failedThenTicked"
  /\ gsmPollId \in timers
  /\ pollsInFlight > 0

\* C3: when no source_mode_update arrived within the fallback window, the
\* active strategy is the one of the locally persisted source mode.
C3_FallbackUsesPersistedMode ==
  (wpc = "done" /\ fallback = "fired" /\ ~sawModeUpdate) =>
    /\ sourceMode = Or(ls.sourceMode, "spotify")
    /\ (Or(ls.sourceMode, "spotify") = "gsmtc") <=> (gsmPollId \in timers)

\* ------------------------------------------------- properties: bus
\* C4: every request_source_mode and request_gsmtc_app_filter published to
\* the booted main surface is answered by the matching update.
C4_ModeRequestsAnswered ==
  (MainPast("listenThemeChange") /\ inbox["main"] = <<>>) => modeRequests = {}

\* C5: once the main surface has registered its listeners, every
\* request_theme is answered by a theme_update that carries the persisted
\* theme, with #2f2f2f, #00cf00 and #ffffff for what is not persisted.
C5_RequestThemeAnswered ==
  [][(/\ inbox["main"] # <<>>
      /\ Head(inbox["main"]).ch = "request_theme"
      /\ inbox'["main"] = Tail(inbox["main"])) =>
       LET t == [bg |-> IF ls.bg \in {Null, ""} THEN "#2f2f2f" ELSE ls.bg,
                 title |-> IF ls.title \in {Null, ""} THEN "#00cf00" ELSE ls.title,
                 meta |-> IF ls.meta \in {Null, ""} THEN "#ffffff" ELSE ls.meta]
       IN /\ lastThemeUpdate' = [cause |-> "request", theme |-> t]
          /\ \A s \in {"widget", "settings"} :
               (s = "widget" /\ wpc \notin {"closed", "load"}) \/
               (s = "settings" /\ spc \notin {"closed", "load"}) =>
                 inbox'[s] = Append(inbox[s],
                                    [ch |-> "theme_update", payload |-> t])]_vars

\* a request was answered with the persisted theme, and the answer is on its
\* way to the widget
C5_Witness ==
  /\ lastThemeUpdate = ThemeUpdate("request", Theme("#123456", "#00cf00", "#ffffff"))
  /\ ls.bg = "#123456"
  /\ inbox["widget"] # <<>>
  /\ inbox["widget"][Len(inbox["widget"])] =
       Msg("theme_update", Theme("#123456", "#00cf00", "#ffffff"))

\* C6: for every interleaving of the main surface's boot and the widget's
\* boot, the widget ends up with the main surface's theme: when both have
\* booted and no event is left to handle, the widget shows the persisted
\* theme.
C6_WidgetGetsMainTheme ==
  (/\ MainPast("listenThemeChange")
   /\ wpc \notin {"closed", "load"}
   /\ \A s \in Surfaces : inbox[s] = <<>>) =>
     wTheme = applyTheme(getTheme(ls))

\* ------------------------------------------------- properties: lifecycle
\* C7: for any interleaving of click handlers there is at most one window
\* labelled widget, and every click decides from the actual existence of
\* the window: a click that finds the widget in the cached handle finds a
\* window that exists.
C7_ClickDecidesFromExistence ==
  /\ Cardinality({l \in registry : l = "widget"}) <= 1
  /\ \A i \in 1..Len(clicks) :
       clicks[i].src = "cache" => (clicks[i].exists <=> clicks[i].live)

\* every click handler has returned and no window event is due
Quiescent ==
  /\ \A i \in 1..Len(clicks) : clicks[i].pc = "done"
  /\ creating["widget"] = 0
  /\ handles.createdCbs = 0
  /\ handles.destroyedEvs = 0

\* C8: from a closed widget, N toggle clicks that each wait for the one
\* before, with no failing close and nobody else closing the window, leave
\* the widget absent if N is even and present if N is odd.
C8_ToggleParity ==
  (Quiescent /\ ~hist.overlapped /\ hist.faults = 0 /\ hist.closes = 0) =>
    (WidgetLive <=> Len(clicks) % 2 = 1)

\* C9: opening the settings window twice in a row, with no close in
\* between, gives one window labelled settings, and the second click creates
\* nothing and only focuses it.
C9_SecondOpenOnlyFocuses ==
  hist.sCloses = 0 =>
    /\ (/\ Len(sclicks) >= 1
        /\ \A i \in 1..Len(sclicks) : sclicks[i].pc = "done"
        /\ creating["settings"] = 0) => "settings" \in registry
    /\ \A i \in 2..Len(sclicks) :
         (sclicks[i].after /\ sclicks[i].pc = "done") => sclicks[i].act = "focus"

\* C11: closeWidget calls close() and destroy() only on a handle it found,
\* calls destroy() only after close() failed, has tried close(), and destroy()
\* after a failed close(), when its click handler goes on, and no failure of
\* either ends the click handler.
C11_CloseWidgetContainsFailures ==
  \A i \in 1..Len(clicks) :
    LET c == clicks[i]
    IN /\ c.pc # "threw"
       /\ c.closeSt # "none" => c.exists
       /\ ~c.exists => (c.closeSt = "none" /\ c.destroySt = "none")
       /\ c.destroySt # "none" => c.closeSt = "failed"
       /\ (c.exists /\ c.pc \in {"btnLookup", "done"}) =>
            \/ c.closeSt = "ok"
            \/ c.closeSt = "failed" /\ c.destroySt \in {"ok", "failed"}

\* close() and destroy() both failed and the click handler returned
C11_Witness ==
  \E i \in 1..Len(clicks) :
    /\ clicks[i].pc = "done"
    /\ clicks[i].closeSt = "failed"
    /\ clicks[i].destroySt = "failed"

\* C12: after closeWidget failed both close() and destroy(), the next tick of
\* the reconciliation timer derives the widget's existence from the window
\* registry, not from the cached handle.
C12_TickAfterFailureProbes ==
  (hist.bothFailed /\ hist.tickSrc # "none") => hist.tickSrc = "registry"

\* C10: whenever findExistingWidget returns the cached handle, a window
\* labelled widget exists in the registry.
C10_FoundWidgetExists == hist.cacheHit # "dead"

\* ------------------------------------------------- properties: export
\* the records observed so far, in order
ObservedTracks == [n \in 1..Len(obs) |-> obs[n].d]

\* the keys of the export attempts so far, in order
AttemptKeys == [n \in 1..Len(attempts) |-> attempts[n].key]

\* C13: with export enabled throughout, the observations A, A, A, B, A of
\* playing tracks initiate exactly two export attempts.
C13_AAABAExportsTwice ==
  (/\ exNote.toggles = 0
   /\ exportEnabled
   /\ ObservedTracks = <<TrackA, TrackA, TrackA, TrackB, TrackA>>)
  => Len(attempts) = 2

\* C14: while export stays enabled, at most one export attempt is initiated
\* per distinct track key.
C14_OneAttemptPerKey ==
  (exNote.toggles = 0 /\ exportEnabled)
  => \A m, n \in 1..Len(attempts) :
       attempts[m].key = attempts[n].key => m = n

\* the attempts initiated by the observations m..n for key k
AttemptsFor(m, n, k) ==
  {a \in 1..Len(attempts) :
     attempts[a].at \in m..n /\ attempts[a].key = k}

\* observations m..n are of one playing record, with export enabled and not
\* re-enabled in between, and the record was not the last one exported
SameNewTrack(m, n) ==
  /\ obs[m].d.is_playing
  /\ obs[m].keyBefore # trackKey(obs[m].d)
  /\ \A i \in m..n : /\ obs[i].d = obs[m].d
                     /\ obs[i].enabled
                     /\ obs[i].epoch = obs[m].epoch

\* C15: two observations of the same new track initiate one export attempt
\* between them, whether or not the first write has completed, and so do the
\* two maybeExport calls made for one now_playing_update.
C15_SameTrackOneAttempt ==
  \A m, n \in 1..Len(obs) :
    (m <= n /\ SameNewTrack(m, n))
    => Cardinality(AttemptsFor(m, n, trackKey(obs[m].d))) = 1

\* the same track was observed twice while its first write is in flight
C15_Witness ==
  /\ Len(obs) = 2
  /\ SameNewTrack(1, 2)
  /\ obs[1].src = "push"
  /\ writes = <<trackKey(obs[1].d)>>
  /\ Len(attempts) = 1

\* C16: after the writer failed for a track, the next observation of that
\* track (playing, export enabled) initiates a new attempt.
C16_FailedWriteRetried ==
  \A n \in 1..Len(obs) :
    (/\ exNote.failKey # ""
     /\ n = exNote.failAt + 1
     /\ obs[n].d.is_playing
     /\ obs[n].enabled
     /\ trackKey(obs[n].d) = exNote.failKey)
    => AttemptsFor(n, n, exNote.failKey) # {}

\* C17: the writer is invoked only after an output directory was resolved.
C17_WriterHasDirectory ==
  \A a \in 1..Len(attempts) : attempts[a].dir # Null

\* the observation a step has added, if it added one
Observing == Len(obs') = Len(obs) + 1

NewObs == obs'[Len(obs')]

\* C18: the writer is invoked only by an observation of a playing record
\* made while export is enabled; an observation made while export is disabled
\* or of a record that is not playing leaves lastExportKey alone and
\* initiates no export.
C18_ExportOnlyEnabledAndPlaying ==
  [][/\ (attempts' # attempts \/ Len(writes') > Len(writes))
        => (Observing /\ NewObs.enabled /\ NewObs.d.is_playing)
     /\ (Observing /\ ~(NewObs.enabled /\ NewObs.d.is_playing))
        => (/\ lastExportKey' = lastExportKey
            /\ attempts' = attempts
            /\ writes' = writes)]_vars

\* a playing track was observed while export was disabled, after another
\* one had been exported, and a pause was observed while it was enabled
C18_Witness ==
  /\ Len(obs) = 3
  /\ obs[1].enabled /\ obs[1].d = TrackA
  /\ obs[2].enabled /\ obs[2].d = NotPlaying
  /\ ~obs[3].enabled /\ obs[3].d = TrackB
  /\ AttemptKeys = <<trackKey(TrackA)>>
  /\ lastExportKey = trackKey(TrackA)

\* C19: when the toggle was switched on and get_current_playing answers with
\* a playing track while export is still enabled, an export attempt has been
\* initiated for that track since the enabling, even when it was the last
\* one exported before.
C19_EnableExportsCurrent ==
  \A n \in 1..Len(obs) :
    (obs[n].src = "toggle" /\ obs[n].enabled /\ obs[n].d.is_playing)
    => \E a \in 1..Len(attempts) :
         /\ attempts[a].key = trackKey(obs[n].d)
         /\ attempts[a].epoch = obs[n].epoch
         /\ attempts[a].at <= n

\* track A was exported, export was disabled and enabled again, and the
\* answer of get_current_playing exported A once more
C19_Witness ==
  /\ Len(obs) = 2
  /\ obs[1].src = "push" /\ obs[2].src = "toggle"
  /\ obs[2].keyBefore = ""
  /\ AttemptKeys = <<trackKey(TrackA), trackKey(TrackA)>>
  /\ attempts[1].epoch = 0 /\ attempts[2].epoch = 1
  /\ attempts[2].src = "toggle"

\* ------------------------------------------------- properties: render
\* C20: the playing record with a track name rendered next after a
\* not-playing one takes the track-change branch, also when it is the track
\* shown before the pause; the same record rendered again takes it no more.
C20_SwapOnceAfterPause ==
  [][\A d \in RenderInputs :
       (Render(d) /\ d.is_playing /\ d.track_name # "")
       => /\ lastFx = "reset" => (lastFx' = "swap" /\ lastKey' # "")
          /\ (lastFx \in {"swap", "refresh"} /\ renderNote.last = d)
             => (lastFx' = "refresh" /\ lastKey' = lastKey)]_vars

\* the track shown before the pause was rendered again after it and swapped
C20_Witness ==
  /\ lastFx = "swap"
  /\ lastKey # ""
  /\ renderNote.pausedKey = lastKey

\* C21: of two consecutive not-playing records rendered, the second runs no
\* text swap animation and no artwork reset.
C21_SecondPauseIsQuiet ==
  [][\A d \in RenderInputs :
       (Render(d) /\ ~(d.is_playing /\ d.track_name # "") /\ lastFx = "reset")
       => ~Animates(lastFx')]_vars

SelectedApp(g, f) ==
  f \in Categories /\ g.source_app_id \in RepresentativeIds[f]

\* the status is playing or paused in some casing, or a position is present
ActiveSession(g) ==
  g.status \in {"Playing", "Paused", "PAUSED"} \/ g.position_ms # Null

\* C23: the record renderGSMTC hands on is playing exactly when the snapshot
\* is from the selected application and its status is playing or paused or a
\* position is present; every other snapshot is rendered as not playing.
C23_ActiveSelectedIsPlaying ==
  renderNote.via = "renderGSMTC"
  => LET g == renderNote.snap
         f == renderNote.filter
     IN /\ renderNote.last.is_playing <=> (SelectedApp(g, f) /\ ActiveSession(g))
        /\ ~(SelectedApp(g, f) /\ ActiveSession(g))
           => (display = NothingShown /\ lastKey = "" /\ lastFx = "reset")

\* a stopped session of the selected application with a position of 0 was
\* rendered as playing
C23_Witness ==
  /\ renderNote.via = "renderGSMTC"
  /\ renderNote.snap.status = "Stopped"
  /\ renderNote.snap.position_ms = "0"
  /\ SelectedApp(renderNote.snap, renderNote.filter)
  /\ renderNote.last.is_playing
  /\ display.show

\* the snapshot of the scenario: status Playing, title Song X, artist
\* Artist Y, album Album Z, from the selected application
ScenarioSnapshot ==
  /\ renderNote.via = "renderGSMTC"
  /\ SelectedApp(renderNote.snap, renderNote.filter)
  /\ renderNote.snap.status = "Playing"
  /\ renderNote.snap.title = "Song X"
  /\ renderNote.snap.artist = "Artist Y"
  /\ renderNote.snap.album = "Album Z"

\* C24 as stated: for the scenario's snapshot the record handed to render
\* has is_playing true, track_name Song X, album Album Z and artists equal
\* to the sequence of the one name Artist Y.
C24_ScenarioArtistsIsList ==
  ScenarioSnapshot
  => /\ renderNote.last.is_playing
     /\ renderNote.last.track_name = "Song X"
     /\ renderNote.last.album = "Album Z"
     /\ renderNote.last.artists = Artists(FALSE, <<"Artist Y">>)

\* C24, amended: for the scenario's snapshot the record handed to render has
\* is_playing true, track_name Song X, album Album Z and artists equal to
\* the string Artist Y, which render shows as it is.
C24_ScenarioArtistsIsString ==
  ScenarioSnapshot
  => /\ renderNote.last.is_playing
     /\ renderNote.last.track_name = "Song X"
     /\ renderNote.last.album = "Album Z"
     /\ renderNote.last.artists = Artists(TRUE, <<"Artist Y">>)
     /\ display.meta = "Artist Y"

\* the scenario's snapshot was rendered
C24_Witness ==
  /\ ScenarioSnapshot
  /\ renderNote.snap.position_ms = Null
  /\ display.show /\ display.title = "Song X"

\* C25: a representative identifier of a category matches under the filter
\* of that category and under neither of the other two filters.
C25_RepresentativesMatchOwnFilter ==
  (/\ renderNote.via = "renderGSMTC"
   /\ renderNote.filter \in Categories
   /\ \E c \in Categories : renderNote.snap.source_app_id \in RepresentativeIds[c])
  => (renderNote.matched <=> SelectedApp(renderNote.snap, renderNote.filter))

\* the PWA launcher identifier was let through by the ytm filter
C25_Witness ==
  /\ renderNote.via = "renderGSMTC"
  /\ renderNote.filter = "ytm"
  /\ renderNote.snap.source_app_id = "chrome_pwa_youtube"
  /\ renderNote.snap.status = "Playing"
  /\ renderNote.matched
  /\ display.show

\* C26: under a filter outside the three categories, and for a payload that
\* is null or has no source_app_id, matchesSelectedApp answers false and the
\* poll result is rendered as not playing.
C26_MatcherFailsClosed ==
  (/\ renderNote.via = "renderGSMTC"
   /\ \/ renderNote.filter \notin Categories
      \/ renderNote.snap.source_app_id = Null)
  => (~renderNote.matched /\ ~renderNote.last.is_playing
      /\ display = NothingShown /\ lastFx = "reset")

\* a playing Spotify session was rendered as not playing under an unknown
\* filter
C26_Witness ==
  /\ renderNote.via = "renderGSMTC"
  /\ renderNote.filter = "winamp"
  /\ renderNote.snap.source_app_id = "Spotify.exe"
  /\ renderNote.snap.status = "Playing"
  /\ ~renderNote.matched
  /\ display = NothingShown

\* ------------------------------------------------- properties: theme store
\* C27: after setTheme(T), for T a triple of hex colours, getTheme returns T
\* in all three components.
C27_ThemeRoundTrip ==
  lastThemeUpdate.cause = "change" => getTheme(ls) = lastThemeUpdate.theme

\* three different colours were stored and read back
C27_Witness ==
  /\ lastThemeUpdate = ThemeUpdate("change", Theme("#ABCDEF", "#000000", "#fff"))
  /\ getTheme(ls) = Theme("#ABCDEF", "#000000", "#fff")


\* C29: once the main page has unloaded, the reconciliation timer is
\* cancelled: no tick of it starts afterwards.
C29_NoSyncTickAfterUnload ==
  [][mpc = "unloaded" => ~SyncTick]_vars

\* the main page unloaded while the widget window it opened is still there
C29_Witness ==
  /\ mpc = "unloaded"
  /\ ~syncInterval
  /\ "widget" \in registry
  /\ hist.closes = 0


PlayingObservation(d) == d.is_playing /\ d.track_name # ""

\* what the track key is made of
Triple(d) == <<d.track_name, d.artists.items, d.album>>

\* C30: of two consecutive playing records rendered, the second is taken as
\* a track change exactly when track name, artists and album are not all the
\* same: another album alone is a change, another artwork alone is not.
C30_ChangeIffTripleDiffers ==
  [][\A d \in RenderInputs :
       (/\ renderNote.via = "render"
        /\ PlayingObservation(d)
        /\ PlayingObservation(renderNote.last)
        /\ Render(d))
       => ((lastFx' = "swap") <=> (Triple(d) # Triple(renderNote.last)))]_vars


\* ------------------------------------------------- properties: theme convergence
\* main, settings and widget have registered their listeners
AllRegistered ==
  /\ MainPast("listenThemeChange")
  /\ spc = "ready"
  /\ wpc \notin {"closed", "load"}

\* no event is left to handle on any surface
Delivered == \A s \in Surfaces : inbox[s] = <<>>

\* C32: with main, settings and widget registered and every event delivered,
\* the settings inputs and the widget's colours are the theme of the
\* theme_change the settings surface published last (and the main surface
\* heard), however many were published before it.
C32_LastThemeChangeWins ==
  (AllRegistered /\ Delivered /\ hist.heard) =>
    /\ sInputs = hist.lastChange
    /\ wTheme = hist.lastChange

\* a picked colour was published, persisted by the main surface and has
\* reached both surfaces
C32_Witness ==
  /\ AllRegistered /\ Delivered /\ hist.heard
  /\ hist.lastChange = Theme("#123456", "#00cf00", "#ffffff")
  /\ sInputs = hist.lastChange
  /\ wTheme = hist.lastChange
  /\ ls.bg = "#123456"


\* ------------------------------------------------- properties: theme_change
\* C31: the theme_change listener persists the payload with #2f2f2f, #00cf00
\* and #ffffff for every absent or empty component and publishes that same
\* theme as theme_update to every listening surface; getTheme then returns
\* the published theme.
C31_ChangePersistedThenPublished ==
  [][M_ThemeChange =>
       LET p == Head(inbox["main"]).payload
           t == [bg |-> IF p.bg \in {Null, ""} THEN "#2f2f2f" ELSE p.bg,
                 title |-> IF p.title \in {Null, ""} THEN "#00cf00" ELSE p.title,
                 meta |-> IF p.meta \in {Null, ""} THEN "#ffffff" ELSE p.meta]
       IN /\ ls'.bg = t.bg /\ ls'.title = t.title /\ ls'.meta = t.meta
          /\ lastThemeUpdate' = [cause |-> "change", theme |-> t]
          /\ getTheme(ls') = lastThemeUpdate'.theme
          /\ \A s \in {"widget", "settings"} :
               (s = "widget" /\ wpc \notin {"closed", "load"}) \/
               (s = "settings" /\ spc \notin {"closed", "load"}) =>
                 inbox'[s] = Append(inbox[s],
                                    [ch |-> "theme_update", payload |-> t])]_vars

\* a theme_change with only a background colour was handled: the defaults
\* were persisted for the rest, and the widget has the theme_update queued
C31_Witness ==
  /\ lastThemeUpdate = ThemeUpdate("change", Theme("#ABCDEF", "#00cf00", "#ffffff"))
  /\ ls.bg = "#ABCDEF" /\ ls.title = "#00cf00" /\ ls.meta = "#ffffff"
  /\ inbox["widget"] # <<>>
  /\ inbox["widget"][Len(inbox["widget"])] =
       Msg("theme_update", Theme("#ABCDEF", "#00cf00", "#ffffff"))


\* ------------------------------------------------- properties: active source
\* C33: while the mode is spotify no poll snapshot is rendered, neither the
\* boot-time seed nor the result of a poll call still in flight, and while
\* the mode is gsmtc no now_playing_update event is rendered.
C33_RendersOnlyActiveSource ==
  [][/\ sourceMode = "spotify" =>
          \A g \in Snapshots : ~PollResult(g) /\ ~W_SeedGsmtc(TRUE, g)
     /\ sourceMode = "gsmtc" =>
          \A d \in PushRecords : ~PushEvent(d)]_vars

\* C34: every live now_playing_update subscription of the widget is the one
\* spotifyUnsub holds, so there is at most one and a push event is rendered
\* once.
C34_OneSubscription ==
  /\ Cardinality(subs) <= 1
  /\ subs \subseteq {spotifyUnsub}


\* ------------------------------------------------- properties: main boot
\* C35: whenever the main surface's boot handler is past its listener
\* registrations or has ended, the request_theme and theme_change listeners
\* are registered, also when a provider call of the boot failed.
C35_ListenersOnEveryBoot ==
  mpc \notin {"load", "listenReqTheme", "listenThemeChange"} =>
    Listens("main", "request_theme") /\ Listens("main", "theme_change")

\* ------------------------------------------------- properties: source mode
\* C36: sourceMode is always spotify or gsmtc; a source_mode_update with a
\* mode sets sourceMode to gsmtc for the tag gsmtc and to spotify for every
\* other tag, persists that value and starts that strategy; one with an
\* absent or empty mode changes neither sourceMode nor the strategy.
C36_SourceModeKnown ==
  [][/\ sourceMode \in {"spotify", "gsmtc"}
     /\ sourceMode' \in {"spotify", "gsmtc"}
     /\ \A mode \in ModeTags :
          SourceModeUpdate(mode) =>
            IF mode = ""
            THEN UNCHANGED <<sourceMode, ls, timers, gsmPollId, subs,
                             spotifyUnsub, pendingListens, pollsInFlight>>
            ELSE /\ sourceMode' = (IF mode = "gsmtc" THEN "gsmtc" ELSE "spotify")
                 /\ ls'.sourceMode = sourceMode'
                 /\ mode = "gsmtc" => gsmPollId' \in timers'
                 /\ mode # "gsmtc" =>
                      /\ timers' = {} /\ gsmPollId' = 0
                      /\ pendingListens' # {}]_vars

\* a source_mode_update switched the widget to polling, and the mode is
\* persisted
C36_Witness ==
  /\ sawModeUpdate
  /\ sourceMode = "gsmtc" /\ ls.sourceMode = "gsmtc"
  /\ gsmPollId \in timers

=============================================================================
